---------------------------- MODULE Spec2Model ----------------------------
(***************************************************************************)
(* Resumable case workflow of the Salesforce drafter automation            *)
(* (src/au/automate.py) and the case-scoped store it runs on               *)
(* (src/static/unified_s3_manager.py).                                     *)
(*                                                                         *)
(* Strings that the code inspects character by character (case numbers,    *)
(* namespace tokens, form values) are sequences of one-character strings.  *)
(***************************************************************************)
EXTENDS Integers, Sequences, FiniteSets, TLC

\* ------------------------------------------------------------------ bounds
\* Longest raw case number drawn for the allocator.
MaxLen == 2
\* Largest numeric suffix that objects of the initial store may carry.
MaxSuffix == 2
\* Allocations performed in one behaviour of the allocator specification.
MaxAllocs == 2

None == "None"

\* ------------------------------------------------------------ characters
Lower == {"a","b","c","d","e","f","g","h","i","j","k","l","m",
          "n","o","p","q","r","s","t","u","v","w","x","y","z"}
Upper == {"A","B","C","D","E","F","G","H","I","J","K","L","M",
          "N","O","P","Q","R","S","T","U","V","W","X","Y","Z"}
DigitSeq == <<"0","1","2","3","4","5","6","7","8","9">>
DigitChars == {DigitSeq[i] : i \in 1..10}
\* The character class [a-zA-Z0-9\-_] of _clean_case_number.
AllowedChars == Lower \cup Upper \cup DigitChars \cup {"-", "_"}
\* Characters removed by str.strip().
Whitespace == {" "}

RECURSIVE StripLeft(_, _)
StripLeft(s, chars) ==
    IF s # <<>> /\ Head(s) \in chars THEN StripLeft(Tail(s), chars) ELSE s

RECURSIVE StripRight(_, _)
StripRight(s, chars) ==
    IF s # <<>> /\ s[Len(s)] \in chars
    THEN StripRight(SubSeq(s, 1, Len(s) - 1), chars)
    ELSE s

\* Python's str.strip(chars).
StripChars(s, chars) == StripRight(StripLeft(s, chars), chars)

\* Python's str.strip().
Strip(s) == StripChars(s, Whitespace)

\* Python's str(n) for n >= 0.
RECURSIVE ToStr(_)
ToStr(n) ==
    IF n < 10 THEN <<DigitSeq[n + 1]>>
    ELSE ToStr(n \div 10) \o <<DigitSeq[(n % 10) + 1]>>

\* ------------------------------------------------------ namespace tokens
UNKNOWN_CASE == <<"U","N","K","N","O","W","N","_","C","A","S","E">>
UNKNOWN == <<"U","N","K","N","O","W","N">>

\* re.sub(r'[^a-zA-Z0-9\-_]', '_', case_number)
ReplaceInvalid(s) ==
    [i \in 1..Len(s) |-> IF s[i] \in AllowedChars THEN s[i] ELSE "_"]

\* re.sub(r'_+', '_', clean)
RECURSIVE CollapseUnderscores(_)
CollapseUnderscores(s) ==
    IF Len(s) < 2 THEN s
    ELSE IF s[1] = "_" /\ s[2] = "_" THEN CollapseUnderscores(Tail(s))
    ELSE <<s[1]>> \o CollapseUnderscores(Tail(s))

\* A cleaning that leaves the characters outside the class in place.
CleanCaseNumberKeepInvalid(case_number) ==
    LET clean == StripChars(CollapseUnderscores(case_number), {"_"})
    IN  IF clean = <<>> THEN UNKNOWN_CASE ELSE clean

\* _clean_case_number
CleanCaseNumber(case_number) ==
    LET clean == StripChars(CollapseUnderscores(ReplaceInvalid(case_number)), {"_"})
    IN  IF clean = <<>> THEN UNKNOWN_CASE ELSE clean

\* f"{clean_case}_{counter}"
FolderWithCounter(clean_case, counter) == clean_case \o <<"_">> \o ToStr(counter)

\* ------------------------------------------------------------------ store
\* An object key cases/{ns}/{cat}/{file}; ns never contains "/" because it is a
\* cleaned token, so the key is kept as its path segments, root first.
ObjectKey(ns, cat, file) ==
    [root |-> "cases", ns |-> ns, cat |-> cat, file |-> file]

\* A variant probing the prefix "cases/{folder}" without its closing slash.
CaseFolderExistsNoSlash(folder_name, st, probeFails) ==
    IF probeFails THEN FALSE
    ELSE \E k \in st :
            /\ k.root = "cases"
            /\ Len(k.ns) >= Len(folder_name)
            /\ SubSeq(k.ns, 1, Len(folder_name)) = folder_name

\* list_objects_v2(Prefix="cases/{folder}/", MaxKeys=1); any exception of the
\* call is caught inside and answered with False.
CaseFolderExists(folder_name, st, probeFails) ==
    IF probeFails THEN FALSE
    ELSE \E k \in st : k.root = "cases" /\ k.ns = folder_name

\* No probe raises.
NoFail == -1

\* The while loop of _generate_unique_case_folder from a given counter; the
\* probe numbered failAt (counting from 0) is the one whose store call raises.
\* The outer except branch (timestamp fallback) is not entered: the probe
\* swallows its own exceptions and _clean_case_number is total on strings.
RECURSIVE ProbeLoop(_, _, _, _)
ProbeLoop(clean_case, counter, st, failAt) ==
    LET base_folder == IF counter = 0 THEN clean_case
                       ELSE FolderWithCounter(clean_case, counter)
    IN  IF CaseFolderExists(base_folder, st, counter = failAt)
        THEN ProbeLoop(clean_case, counter + 1, st, failAt)
        ELSE [folder |-> base_folder, probes |-> counter + 1,
              probeFailed |-> (counter = failAt)]

GenerateUniqueCaseFolder(case_number, st, failAt) ==
    ProbeLoop(CleanCaseNumber(case_number), 0, st, failAt)

\* UnifiedS3Manager.__init__: case_number or "UNKNOWN", then the folder.
S3ManagerInit(case_number, st, failAt) ==
    LET cn == IF case_number = <<>> THEN UNKNOWN ELSE case_number
        g  == GenerateUniqueCaseFolder(cn, st, failAt)
    IN  [case_number |-> cn, unique_case_folder |-> g.folder,
         probes |-> g.probes, probeFailed |-> g.probeFailed]

\* ---------------------------------------------------------------- state
VARIABLES
    store,                    \* set of object keys present in the bucket
    alloc,                    \* allocator specification: input, result, position
    case_number,              \* the case number text input
    automation_phase,         \* st.session_state['automation_phase']
    automation_started,       \* st.session_state['automation_started']
    automation_completed,     \* st.session_state['automation_completed']
    automation_status,        \* st.session_state['automation_status']
    blank_fields,             \* st.session_state['blank_fields']
    manual_inputs,            \* st.session_state['manual_inputs']
    manual_inputs_submitted,  \* st.session_state['manual_inputs_submitted']
    s3_manager,               \* st.session_state['s3_manager']
    automation_url,           \* st.session_state['automation_url']
    pc,                       \* position of the script run ("idle": none running)
    browser,                  \* local: None, "open" or "closed"
    playwright,               \* local: None, "started" or "stopped"
    current_url,              \* local of run_initial_automation
    url,                      \* argument of continue_automation
    drafter_done,             \* local: drafter_field_main's list; <<>> when falsy
    mobile_done,              \* local: result of mobileapp_main
    doc_field_done,           \* local: result of document_field_main
    page_url,                 \* page.url of the most recent browser page
    sessions,                 \* browsers launched and not yet closed
    form_shown,               \* the manual input form is on screen
    submission,               \* values of the form at its last submit
    hist                      \* record of what the current run has done

sessVars == <<automation_phase, automation_started, automation_completed,
              automation_status, blank_fields, manual_inputs,
              manual_inputs_submitted, s3_manager, automation_url>>
localVars == <<browser, playwright, current_url, url, drafter_done,
               mobile_done, doc_field_done>>
uiVars == <<case_number, form_shown, submission>>
wfVars == <<sessVars, localVars, uiVars, pc, page_url, sessions, hist>>

vars == <<store, alloc, wfVars>>


\* ------------------------------------------------------ workflow: data
\* Starts of the workflow in one behaviour.
MaxRuns == 2

\* Case numbers the operator types.
WfCaseIds == {<<"T">>, <<"T", "/", "1">>}

\* Keys of the default drafter template, in template order (a sample that
\* covers each kind of catalog entry).
TemplateKeys == <<"Status of holding", "Type of Property As per Document",
                  "Flats(on each floor)", "Pincode">>

\* get_all_drafter_fields, restricted to the sampled keys; the template key
\* "Type of Property As per Document" has no entry (the catalog spells it
\* "Type of Property As per document").
FieldCatalog ==
    [k \in {"Status of holding", "Flats(on each floor)", "Pincode"} |->
        CASE k = "Status of holding" ->
                [type |-> "dropdown", required |-> TRUE,
                 options |-> {<<"Free Hold">>, <<"Lease Hold">>}]
          [] k = "Flats(on each floor)" ->
                [type |-> "text", required |-> TRUE, options |-> {}]
          [] k = "Pincode" ->
                [type |-> "text", required |-> FALSE, options |-> {}]]

\* What a text input can hold: nothing, blanks only, or text.
TextValues == {<<>>, <<" ">>, <<"4">>}

\* Non-empty blank-field lists: subsequences of the template keys.
BlankLists ==
    {SelectSeq(TemplateKeys, LAMBDA k : k \in S) :
        S \in (SUBSET {TemplateKeys[i] : i \in 1..Len(TemplateKeys)}) \ {{}}}

\* Blank-field lists that drafter_field_main returns in the workflow: one
\* that puts a required field on the form, one with no known key.
WfBlankLists == {<<"Flats(on each floor)">>,
                 <<"Type of Property As per Document">>}

\* validate_and_transform_empty_fields: known keys, in order; unknown dropped.
ValidateAndTransform(empty_fields) ==
    SelectSeq(empty_fields, LAMBDA k : k \in DOMAIN FieldCatalog)

SeqRange(q) == {q[i] : i \in 1..Len(q)}

\* The widgets of the form: a selectbox offers '' and the options.
WidgetValues(k) ==
    IF FieldCatalog[k].type = "dropdown"
    THEN {<<>>} \cup FieldCatalog[k].options
    ELSE TextValues

FormInputs(validated_fields) ==
    {m \in [SeqRange(validated_fields) -> TextValues \cup UNION {FieldCatalog[k].options : k \in DOMAIN FieldCatalog}] :
        \A k \in SeqRange(validated_fields) : m[k] \in WidgetValues(k)}

\* A variant that demands a value for every descriptor, required or not.
MissingRequiredAll(validated_fields, inputs) ==
    SelectSeq(validated_fields, LAMBDA k : Strip(inputs[k]) = <<>>)

\* A variant that tests the raw value without stripping it.
MissingRequiredNoStrip(validated_fields, inputs) ==
    SelectSeq(validated_fields,
              LAMBDA k : FieldCatalog[k].required /\ inputs[k] = <<>>)

\* missing_required of the submit handler.
MissingRequired(validated_fields, inputs) ==
    SelectSeq(validated_fields,
              LAMBDA k : FieldCatalog[k].required /\ Strip(inputs[k]) = <<>>)

\* Browser locations of a case.
RecordUrl(c) == [case |-> c, view |-> "record"]
DrafterUrl(c) == [case |-> c, view |-> "drafter"]
LoginUrl == [case |-> <<>>, view |-> "login"]
\* Python's None where a location, a manager or a navigation is expected.
NoUrl == [case |-> <<>>, view |-> "none"]
NoManager == [case_number |-> <<>>, unique_case_folder |-> <<>>]
NoNav == [kind |-> "none", target |-> NoUrl]

HistStart == [runs |-> 0, opened |-> FALSE, close_attempted |-> FALSE,
              suspend_url |-> NoUrl,
              suspended |-> FALSE, first_nav |-> NoNav, final_written |-> FALSE,
              gate_result |-> None, allocs |-> <<>>, ended |-> None,
              nav |-> [goto |-> "none", search |-> "none"], writes |-> {},
              error_report |-> FALSE, upload_failed |-> FALSE,
              empty_yield |-> FALSE,
              executed |-> [initial |-> 0, continuing |-> 0], interrupts |-> 0,
              stages |-> [mobile_app |-> FALSE, document_field |-> FALSE],
              final_record |-> [mobile_app |-> FALSE, document_field |-> FALSE]]

\* ------------------------------------------------------ workflow: Init
\* Session state as initialised at lines 916-934, nothing running.
WfStart(c) ==
    /\ case_number = c
    /\ automation_phase = "initial"
    /\ automation_started = FALSE
    /\ automation_completed = FALSE
    /\ automation_status = "idle"
    /\ blank_fields = <<>>
    /\ manual_inputs = <<>>
    /\ manual_inputs_submitted = FALSE
    /\ s3_manager = NoManager
    /\ automation_url = NoUrl
    /\ pc = "idle"
    /\ browser = None
    /\ playwright = None
    /\ current_url = NoUrl
    /\ url = NoUrl
    /\ drafter_done = <<>>
    /\ mobile_done = FALSE
    /\ doc_field_done = FALSE
    /\ page_url = NoUrl
    /\ sessions = 0
    /\ form_shown = FALSE
    /\ submission = <<>>
    /\ hist = HistStart

NoAlloc == [pc |-> "off", case |-> None, failAt |-> NoFail, n |-> 0,
            result |-> None, probeFailed |-> FALSE, prev |-> None,
            prevCase |-> None, prevUploaded |-> FALSE]

Init ==
    /\ store = {}
    /\ alloc = NoAlloc
    /\ WfStart(<<>>)


\* ------------------------------------------- workflow: operator and script
\* button_disabled, with both credentials entered.
ButtonDisabled ==
    \/ automation_started
    \/ Strip(case_number) = <<>>
    \/ automation_status = "running"
    \/ automation_status = "waiting_for_input"

\* The operator types another case number (the input is disabled while
\* automation_started); the script reruns.
EditCaseNumber ==
    /\ pc = "idle"
    /\ ~automation_started
    /\ hist.runs < MaxRuns
    /\ \E c \in WfCaseIds \ {case_number} : case_number' = c
    /\ pc' = "dispatch"
    /\ form_shown' = FALSE
    /\ UNCHANGED <<store, alloc, sessVars, localVars, submission, page_url,
                   sessions, hist>>

\* Any other widget interaction: the script reruns with no button pressed.
Rerun ==
    /\ pc = "idle"
    /\ pc' = "dispatch"
    /\ form_shown' = FALSE
    /\ UNCHANGED <<store, alloc, sessVars, localVars, case_number, submission,
                   page_url, sessions, hist>>

\* "Run Automation" is pressed: lines 999-1015.
RunButton ==
    /\ pc = "idle"
    /\ ~ButtonDisabled
    /\ hist.runs < MaxRuns
    /\ automation_started' = TRUE
    /\ automation_completed' = FALSE
    /\ automation_status' = "running"
    /\ automation_phase' = "initial"
    /\ blank_fields' = <<>>
    /\ manual_inputs' = <<>>
    /\ manual_inputs_submitted' = FALSE
    /\ pc' = "dispatch"
    /\ form_shown' = FALSE
    /\ submission' = <<>>
    /\ hist' = [HistStart EXCEPT !.runs = hist.runs + 1, !.allocs = hist.allocs]
    /\ UNCHANGED <<store, alloc, s3_manager, automation_url, localVars,
                   case_number, page_url, sessions>>

\* The operator presses Submit on the manual input form with some values.
SubmitForm ==
    /\ pc = "idle"
    /\ form_shown
    /\ automation_phase = "waiting_for_input"
    /\ \E m \in FormInputs(ValidateAndTransform(blank_fields)) : submission' = m
    /\ pc' = "gate"
    /\ hist' = [hist EXCEPT !.gate_result = None]
    /\ UNCHANGED <<store, alloc, sessVars, localVars, case_number, form_shown,
                   page_url, sessions>>

\* Lines 1017-1026: which phase function the script run enters.
Dispatch ==
    /\ pc = "dispatch"
    /\ IF automation_started /\ automation_status = "running"
       THEN IF automation_phase = "initial"
            THEN /\ pc' = "i_alloc"
                 /\ hist' = [hist EXCEPT !.opened = FALSE, !.close_attempted = FALSE,
                                         !.ended = None, !.error_report = FALSE,
                                         !.executed.initial = @ + 1]
            ELSE IF automation_phase = "continuing"
            THEN /\ pc' = "c_init"
                 /\ hist' = [hist EXCEPT !.opened = FALSE, !.close_attempted = FALSE,
                                         !.ended = None, !.error_report = FALSE,
                                         !.executed.continuing = @ + 1]
            ELSE /\ pc' = "form"
                 /\ hist' = hist
       ELSE /\ pc' = "form"
            /\ hist' = hist
    /\ url' = IF automation_started /\ automation_status = "running"
                 /\ automation_phase = "continuing"
              THEN automation_url ELSE NoUrl
    /\ UNCHANGED <<store, alloc, sessVars, uiVars, browser, playwright,
                   current_url, drafter_done, mobile_done, doc_field_done,
                   page_url, sessions>>

\* A form block that shows the form whatever the descriptors are.
ShortCircuitsNever(validated_fields) == FALSE

\* Line 1045: "if validated_fields:" takes its else branch (lines 1097-1103)
\* when no descriptor is left to present.
ShortCircuits(validated_fields) == validated_fields = <<>>

\* Lines 1029-1103 when no submit is pending: show the form, or short-circuit
\* when no descriptor is left to present.
FormBlock ==
    /\ pc = "form"
    /\ IF automation_phase = "waiting_for_input"
       THEN IF ~ShortCircuits(ValidateAndTransform(blank_fields))
            THEN /\ form_shown' = TRUE
                 /\ pc' = "idle"
                 /\ UNCHANGED <<manual_inputs, manual_inputs_submitted,
                                automation_phase, automation_status>>
            ELSE /\ manual_inputs' = <<>>
                 /\ manual_inputs_submitted' = TRUE
                 /\ automation_phase' = "continuing"
                 /\ automation_status' = "running"
                 /\ form_shown' = FALSE
                 /\ pc' = "dispatch"
       ELSE /\ form_shown' = FALSE
            /\ pc' = "idle"
            /\ UNCHANGED <<manual_inputs, manual_inputs_submitted,
                           automation_phase, automation_status>>
    /\ UNCHANGED <<store, alloc, automation_started, automation_completed,
                   blank_fields, s3_manager, automation_url, localVars,
                   case_number, submission, page_url, sessions, hist>>

\* Lines 1079-1096: the submit handler of the form.
Gate ==
    /\ pc = "gate"
    /\ LET validated_fields == ValidateAndTransform(blank_fields)
           missing_required == MissingRequired(validated_fields, submission)
       IN  IF missing_required # <<>>
           THEN /\ pc' = "idle"
                /\ hist' = [hist EXCEPT !.gate_result = "rejected"]
                /\ UNCHANGED <<manual_inputs, manual_inputs_submitted,
                               automation_phase, automation_status, form_shown,
                               submission>>
           ELSE /\ manual_inputs' = submission
                /\ submission' = <<>>
                /\ manual_inputs_submitted' = TRUE
                /\ automation_phase' = "continuing"
                /\ automation_status' = "running"
                /\ form_shown' = FALSE
                /\ pc' = "dispatch"
                /\ hist' = [hist EXCEPT !.gate_result = "accepted"]
    /\ UNCHANGED <<store, alloc, automation_started, automation_completed,
                   blank_fields, s3_manager, automation_url, localVars,
                   case_number, page_url, sessions>>


\* ------------------------------------------- workflow: initial phase
\* A phase function is left: its local variables (lines 568-580, 741-750)
\* and the page object are gone.
DropLocals ==
    /\ browser' = None
    /\ playwright' = None
    /\ current_url' = NoUrl
    /\ url' = NoUrl
    /\ drafter_done' = <<>>
    /\ mobile_done' = FALSE
    /\ doc_field_done' = FALSE
    /\ page_url' = NoUrl

GeoKey(ns) == ObjectKey(ns, "json_data", "geolocation_data.json")
ZipKey(ns) == ObjectKey(ns, "downloads", "case_zip")
DocLogKey(ns) == ObjectKey(ns, "logs", "document_download")
DrafterStartKey(ns) == ObjectKey(ns, "json_data", "drafter_field_start_status.json")
DrafterDoneKey(ns) == ObjectKey(ns, "json_data", "drafter_field_completion_status.json")
DrafterErrorKey(ns) == ObjectKey(ns, "json_data", "drafter_field_error_report.json")
ReportKey(ns) == ObjectKey(ns, "json_data", "drafter_manual_input_report")
FinalKey(ns) == ObjectKey(ns, "json_data", "final_completion_status.json")
MobileDoneKey(ns) == ObjectKey(ns, "json_data", "mobile_indus_completion_status.json")
MobileErrorKey(ns) == ObjectKey(ns, "json_data", "mobile_indus_error_report.json")
DocFieldDoneKey(ns) == ObjectKey(ns, "json_data", "document_field_completion_status.json")
DocFieldErrorKey(ns) == ObjectKey(ns, "json_data", "document_field_error_report.json")
ExtractedPdfKey(ns) == ObjectKey(ns, "extracted_files", "pdf")
DocAnalysisKey(ns) == ObjectKey(ns, "json_data", "document_analysis")
ExtractedAnalysisKey(ns) == ObjectKey(ns, "json_data", "extracted_analysis")

\* S3Downloader.generate_s3_result_key on the address s3://bucket/{key} of the
\* zip: parts[1] is the first segment of the key; the file name carries a
\* timestamp, not kept here.
GenerateS3ResultKey(zip_key) ==
    IF zip_key.root = "processes"
    THEN [root |-> "processes", ns |-> zip_key.ns, cat |-> "results",
          file |-> "extracted_data"]
    ELSE [root |-> "extraction_results", ns |-> <<>>, cat |-> "",
          file |-> "extracted_data"]

\* Probe failures drawn while the workflow constructs a manager.
WfFailChoices == {NoFail, 0}

Folder == s3_manager.unique_case_folder
CaseArg == Strip(case_number)

\* Lines 594-598: UnifiedS3Manager(case_number.strip()), kept in the session.
I_Alloc ==
    /\ pc = "i_alloc"
    /\ \/ \E f \in WfFailChoices :
            LET m == S3ManagerInit(CaseArg, store, f)
            IN  /\ s3_manager' = [case_number |-> m.case_number,
                                  unique_case_folder |-> m.unique_case_folder]
                /\ hist' = [hist EXCEPT !.allocs =
                              Append(@, [case |-> CaseArg, ns |-> m.unique_case_folder])]
                /\ pc' = "i_login"
       \/ /\ pc' = "i_except"            \* the client cannot be created
          /\ UNCHANGED <<s3_manager, hist>>
    /\ UNCHANGED <<store, alloc, automation_phase, automation_started,
                   automation_completed, automation_status, blank_fields,
                   manual_inputs, manual_inputs_submitted, automation_url,
                   localVars, uiVars, page_url, sessions>>

\* Lines 606-608: start_salesforce_session returns a session or raises.
I_Login ==
    /\ pc = "i_login"
    /\ \/ /\ browser' = "open"
          /\ playwright' = "started"
          /\ sessions' = sessions + 1
          /\ page_url' = LoginUrl
          /\ hist' = [hist EXCEPT !.opened = TRUE]
          /\ pc' = "i_nav"
       \/ /\ pc' = "i_except"
          /\ UNCHANGED <<browser, playwright, sessions, page_url, hist>>
    /\ UNCHANGED <<store, alloc, sessVars, current_url, url, drafter_done,
                   mobile_done, doc_field_done, uiVars>>

\* Lines 615-624: case search, then current_url = page.url.
I_Nav ==
    /\ pc = "i_nav"
    /\ \/ /\ page_url' = RecordUrl(CaseArg)
          /\ current_url' = RecordUrl(CaseArg)
          /\ pc' = "i_geo"
       \/ /\ pc' = "i_except"
          /\ UNCHANGED <<page_url, current_url>>
    /\ UNCHANGED <<store, alloc, sessVars, browser, playwright, url,
                   drafter_done, mobile_done, doc_field_done, uiVars, sessions,
                   hist>>

\* Lines 626-639: read the geolocation and upload it. Reading the field may
\* raise; upload_file logs a failed put_object and re-raises it (lines
\* 132-136 of unified_s3_manager.py), and no handler stands between the call
\* at line 631 and the except block of line 721.
I_Geo ==
    /\ pc = "i_geo"
    /\ \/ /\ store' = store \cup {GeoKey(Folder)}
          /\ pc' = "i_zip"
          /\ UNCHANGED hist
       \/ /\ pc' = "i_except"
          /\ \E upload \in BOOLEAN : hist' = [hist EXCEPT !.upload_failed = upload]
          /\ UNCHANGED store
    /\ UNCHANGED <<alloc, sessVars, localVars, uiVars, page_url, sessions>>

\* Line 648: zip_download returns a non-empty locator or raises; its zip
\* upload may fail silently, and its logs are saved in a finally block. The
\* two uploads of the one call find the store up or down together here. The
\* else branch of lines 713-719 needs a falsy result and is never taken.
I_Zip ==
    /\ pc = "i_zip"
    /\ \E storeUp \in BOOLEAN :
         store' = store \cup (IF storeUp
                              THEN {ZipKey(Folder), DocLogKey(Folder)} ELSE {})
    /\ \/ pc' = "i_pipelines"
       \/ pc' = "i_except"
    /\ UNCHANGED <<alloc, sessVars, localVars, uiVars, page_url, sessions, hist>>

\* Lines 657-666: the three pipelines work from the zip stored under
\* downloads/ and catch their own errors. extract_pdfs_from_zip uploads the
\* PDFs, run_document_analysis_pipeline uploads its record, and
\* run_image_extraction_pipeline first lets DocumentExtractionPipeline upload
\* its result under the key that generate_s3_result_key derives from the
\* zip's address, then uploads the extracted analysis with upload_file. The
\* uploads made through the manager succeed or fail together here.
I_Pipelines ==
    /\ pc = "i_pipelines"
    /\ IF ZipKey(Folder) \in store
       THEN \E outcome \in {"none", "result", "all"} :
              store' = store
                \cup (IF outcome # "none"
                      THEN {GenerateS3ResultKey(ZipKey(Folder))} ELSE {})
                \cup (IF outcome = "all"
                      THEN {ExtractedPdfKey(Folder), DocAnalysisKey(Folder),
                            ExtractedAnalysisKey(Folder)}
                      ELSE {})
       ELSE UNCHANGED store
    /\ pc' = "i_drafter"
    /\ UNCHANGED <<alloc, sessVars, localVars, uiVars, page_url, sessions, hist>>

\* What process_drafter_fields answers (lines 551-560 of drafter_field.py):
\* the list of blank fields, which may be empty, or False after an error.
ProcessResults ==
    {[ok |-> TRUE, list |-> L] : L \in WfBlankLists \cup {<<>>}}
        \cup {[ok |-> FALSE, list |-> <<>>]}

\* A test that lets an empty list through: "process_success is False".
IsFalsyOnlyFalse(r) == ~r.ok

\* Line 600 of drafter_field.py and line 680 of automate.py test the answer
\* for truth: False and the empty list are both falsy.
IsFalsy(r) == ~r.ok \/ r.list = <<>>

\* Lines 657-678: the extraction pipelines swallow their errors; then
\* drafter_field_main returns the blank-field list, returns False after
\* uploading its error report (a falsy answer of process_drafter_fields
\* raises at line 601), or raises when the upload of that report fails.
I_Drafter ==
    /\ pc = "i_drafter"
    /\ \E r \in ProcessResults :
         IF ~IsFalsy(r)
         THEN /\ drafter_done' = r.list
              /\ store' = store \cup {DrafterStartKey(Folder), DrafterDoneKey(Folder)}
              /\ \E u \in {RecordUrl(CaseArg), DrafterUrl(CaseArg)} : page_url' = u
              /\ pc' = "i_suspend"
              /\ hist' = [hist EXCEPT !.empty_yield = r.ok /\ r.list = <<>>]
         ELSE /\ hist' = [hist EXCEPT !.error_report = TRUE,
                                      !.empty_yield = r.ok /\ r.list = <<>>]
              /\ UNCHANGED page_url
              /\ \/ /\ drafter_done' = <<>>
                    /\ \E startOk \in BOOLEAN :
                         store' = store \cup {DrafterErrorKey(Folder)}
                                    \cup (IF startOk THEN {DrafterStartKey(Folder)}
                                                     ELSE {})
                    /\ pc' = "i_fail"
                 \/ /\ \E startOk \in BOOLEAN :
                         store' = store \cup (IF startOk THEN {DrafterStartKey(Folder)}
                                                         ELSE {})
                    /\ pc' = "i_except"
                    /\ UNCHANGED drafter_done
    /\ UNCHANGED <<alloc, sessVars, browser, playwright, current_url, url,
                   mobile_done, doc_field_done, uiVars, sessions>>

\* Lines 686-696: the blank fields, the location and the phase are recorded.
I_Suspend ==
    /\ pc = "i_suspend"
    /\ blank_fields' = drafter_done
    /\ current_url' = page_url
    /\ automation_phase' = "waiting_for_input"
    /\ automation_status' = "waiting_for_input"
    /\ hist' = [hist EXCEPT !.suspend_url = page_url, !.suspended = TRUE]
    /\ pc' = "i_close"
    /\ UNCHANGED <<store, alloc, automation_started, automation_completed,
                   manual_inputs, manual_inputs_submitted, s3_manager,
                   automation_url, browser, playwright, url, drafter_done,
                   mobile_done, doc_field_done, uiVars, page_url, sessions>>

\* Line 701: browser.close(); a close that raises leaves the browser open.
I_Close ==
    /\ pc = "i_close"
    /\ hist' = [hist EXCEPT !.close_attempted = TRUE]
    /\ \/ /\ browser' = "closed"
          /\ sessions' = sessions - 1
          /\ pc' = "i_stop"
       \/ /\ pc' = "i_except"
          /\ UNCHANGED <<browser, sessions>>
    /\ UNCHANGED <<store, alloc, sessVars, playwright, current_url, url,
                   drafter_done, mobile_done, doc_field_done, uiVars, page_url>>

\* Line 702: playwright.stop().
I_Stop ==
    /\ pc = "i_stop"
    /\ \/ /\ playwright' = "stopped"
          /\ pc' = "i_rerun"
       \/ /\ pc' = "i_except"
          /\ UNCHANGED playwright
    /\ UNCHANGED <<store, alloc, sessVars, browser, current_url, url,
                   drafter_done, mobile_done, doc_field_done, uiVars, page_url,
                   sessions, hist>>

\* Line 705: st.rerun() raises Streamlit's rerun signal, which is not an
\* Exception: it leaves run_initial_automation without a return value, so
\* line 1022 is skipped and the script starts over.
I_Rerun ==
    /\ pc = "i_rerun"
    /\ pc' = "dispatch"
    /\ hist' = [hist EXCEPT !.ended = "initial"]
    /\ DropLocals
    /\ UNCHANGED <<store, alloc, sessVars, uiVars, sessions>>

\* Lines 706-712: drafter_field_main returned a falsy value.
I_Fail ==
    /\ pc = "i_fail"
    /\ automation_status' = "failed"
    /\ automation_started' = FALSE
    /\ pc' = "i_return"
    /\ UNCHANGED <<store, alloc, automation_phase, automation_completed,
                   blank_fields, manual_inputs, manual_inputs_submitted,
                   s3_manager, automation_url, localVars, uiVars, page_url,
                   sessions, hist>>

\* Lines 721-727: the except block records the failure.
I_Except ==
    /\ pc = "i_except"
    /\ automation_status' = "failed"
    /\ automation_started' = FALSE
    /\ pc' = "i_exc_close"
    /\ UNCHANGED <<store, alloc, automation_phase, automation_completed,
                   blank_fields, manual_inputs, manual_inputs_submitted,
                   s3_manager, automation_url, localVars, uiVars, page_url,
                   sessions, hist>>

\* Lines 729-731: if browser: await browser.close(). An error raised here
\* leaves the function and ends the script run.
I_ExcClose ==
    /\ pc = "i_exc_close"
    /\ IF browser = None
       THEN /\ pc' = "i_exc_stop"
            /\ UNCHANGED <<localVars, page_url, sessions, hist>>
       ELSE \/ /\ browser' = "closed"
               /\ sessions' = IF browser = "open" THEN sessions - 1 ELSE sessions
               /\ hist' = [hist EXCEPT !.close_attempted = TRUE]
               /\ pc' = "i_exc_stop"
               /\ UNCHANGED <<playwright, current_url, url, drafter_done,
                              mobile_done, doc_field_done, page_url>>
            \/ /\ hist' = [hist EXCEPT !.close_attempted = TRUE, !.ended = "initial"]
               /\ pc' = "idle"
               /\ DropLocals
               /\ UNCHANGED sessions
    /\ UNCHANGED <<store, alloc, sessVars, uiVars>>

\* Lines 732-733: if playwright: await playwright.stop().
I_ExcStop ==
    /\ pc = "i_exc_stop"
    /\ IF playwright = None
       THEN /\ pc' = "i_return"
            /\ UNCHANGED <<localVars, page_url, hist>>
       ELSE \/ /\ playwright' = "stopped"
               /\ pc' = "i_return"
               /\ UNCHANGED <<browser, current_url, url, drafter_done,
                              mobile_done, doc_field_done, page_url, hist>>
            \/ /\ hist' = [hist EXCEPT !.ended = "initial"]
               /\ pc' = "idle"
               /\ DropLocals
    /\ UNCHANGED <<store, alloc, sessVars, uiVars, sessions>>

\* Lines 735-736 and 1021-1022: the location returned is kept in the session.
I_Return ==
    /\ pc = "i_return"
    /\ automation_url' = current_url
    /\ hist' = [hist EXCEPT !.ended = "initial"]
    /\ pc' = "form"
    /\ DropLocals
    /\ UNCHANGED <<store, alloc, automation_phase, automation_started,
                   automation_completed, automation_status, blank_fields,
                   manual_inputs, manual_inputs_submitted, s3_manager,
                   uiVars, sessions>>

InitialPhase ==
    \/ I_Alloc \/ I_Login \/ I_Nav \/ I_Geo \/ I_Zip \/ I_Pipelines \/ I_Drafter
    \/ I_Suspend \/ I_Close \/ I_Stop \/ I_Rerun \/ I_Fail
    \/ I_Except \/ I_ExcClose \/ I_ExcStop \/ I_Return


\* ------------------------------------------- workflow: continuing phase
\* Lines 765-772: the manager of the session, or a new one when it is missing.
C_Init ==
    /\ pc = "c_init"
    /\ IF s3_manager # NoManager
       THEN /\ pc' = "c_login"
            /\ UNCHANGED <<s3_manager, hist>>
       ELSE \E f \in WfFailChoices :
              LET m == S3ManagerInit(CaseArg, store, f)
              IN  /\ s3_manager' = [case_number |-> m.case_number,
                                    unique_case_folder |-> m.unique_case_folder]
                  /\ pc' = "c_login"
                  /\ UNCHANGED hist
    /\ UNCHANGED <<store, alloc, automation_phase, automation_started,
                   automation_completed, automation_status, blank_fields,
                   manual_inputs, manual_inputs_submitted, automation_url,
                   localVars, uiVars, page_url, sessions>>

\* Lines 774-776: start_salesforce_session returns a session or raises.
C_Login ==
    /\ pc = "c_login"
    /\ \/ /\ browser' = "open"
          /\ playwright' = "started"
          /\ sessions' = sessions + 1
          /\ page_url' = LoginUrl
          /\ hist' = [hist EXCEPT !.opened = TRUE]
          /\ pc' = "c_nav"
       \/ /\ pc' = "c_except"
          /\ UNCHANGED <<browser, playwright, sessions, page_url, hist>>
    /\ UNCHANGED <<store, alloc, sessVars, current_url, url, drafter_done,
                   mobile_done, doc_field_done, uiVars>>

\* A variant in which a failed goto is not followed by the case search.
NavOutcomesNoFallback(u, c, page) ==
    IF u # NoUrl
    THEN {[goto |-> "ok", search |-> "none", page |-> u, done |-> TRUE],
          [goto |-> "failed", search |-> "none", page |-> page, done |-> FALSE]}
    ELSE {[goto |-> "none", search |-> "ok", page |-> RecordUrl(c), done |-> TRUE],
          [goto |-> "none", search |-> "failed", page |-> page, done |-> FALSE]}

\* Lines 786-798 as the set of ways they can go: whether page.goto and
\* case_search_main were called and how each ended, the page reached, and
\* whether the block completed without raising.
NavOutcomes(u, c, page) ==
    IF u # NoUrl
    THEN {[goto |-> "ok", search |-> "none", page |-> u, done |-> TRUE],
          [goto |-> "failed", search |-> "ok", page |-> RecordUrl(c), done |-> TRUE],
          [goto |-> "failed", search |-> "failed", page |-> page, done |-> FALSE]}
    ELSE {[goto |-> "none", search |-> "ok", page |-> RecordUrl(c), done |-> TRUE],
          [goto |-> "none", search |-> "failed", page |-> page, done |-> FALSE]}

\* Lines 786-798: go to the saved location when there is one, and search for
\* the case when there is none or when going there raises.
C_Nav ==
    /\ pc = "c_nav"
    /\ \E r \in NavOutcomes(url, CaseArg, page_url) :
         /\ hist' = [hist EXCEPT
                       !.first_nav = IF r.goto # "none"
                                     THEN [kind |-> "goto", target |-> url]
                                     ELSE [kind |-> "search",
                                           target |-> RecordUrl(CaseArg)],
                       !.nav = [goto |-> r.goto, search |-> r.search]]
         /\ page_url' = r.page
         /\ pc' = IF r.done THEN "c_tab" ELSE "c_except"
    /\ UNCHANGED <<store, alloc, sessVars, localVars, uiVars, sessions>>

\* Lines 800-803: open the Drafter's Field tab.
C_Tab ==
    /\ pc = "c_tab"
    /\ \/ pc' = "c_fill"
       \/ pc' = "c_except"
    /\ UNCHANGED <<store, alloc, sessVars, localVars, uiVars, page_url,
                   sessions, hist>>

\* The position of a key in the order the form presents the fields.
KeyIndex(k) == CHOOSE i \in 1..Len(TemplateKeys) : TemplateKeys[i] = k

\* A variant in which the first write that fails ends the loop.
FillManualInputsStopAtFailure(inputs, failing) ==
    {[key |-> k,
      kind |-> IF FieldCatalog[k].type = "dropdown" THEN "select" ELSE "fill",
      value |-> inputs[k],
      ok |-> k \notin failing] :
        k \in {j \in DOMAIN inputs \cap DOMAIN FieldCatalog :
                 \A f \in failing \cap DOMAIN inputs : KeyIndex(j) <= KeyIndex(f)}}

\* fill_manual_inputs: the writes attempted on the form, one for each key
\* of the mapping that the catalog knows; the keys in failing are those
\* whose write raises, which the loop logs and passes over.
FillManualInputs(inputs, failing) ==
    {[key |-> k,
      kind |-> IF FieldCatalog[k].type = "dropdown" THEN "select" ELSE "fill",
      value |-> inputs[k],
      ok |-> k \notin failing] :
        k \in DOMAIN inputs \cap DOMAIN FieldCatalog}

\* Lines 811-820: replay the manual inputs and save the report; neither call
\* raises, and a failed report upload is only logged.
C_Fill ==
    /\ pc = "c_fill"
    /\ \E failing \in SUBSET (DOMAIN manual_inputs) :
         hist' = [hist EXCEPT !.writes = FillManualInputs(manual_inputs, failing)]
    /\ \E reportOk \in BOOLEAN :
         store' = store \cup (IF reportOk THEN {ReportKey(Folder)} ELSE {})
    /\ pc' = "c_mobile"
    /\ UNCHANGED <<alloc, sessVars, localVars, uiVars, page_url, sessions>>

\* Lines 828-830: mobileapp_main answers True after uploading its completion
\* status, answers False after uploading its error report, or raises when
\* the upload of the error report fails.
C_Mobile ==
    /\ pc = "c_mobile"
    /\ \/ /\ \E r \in BOOLEAN :
               /\ mobile_done' = r
               /\ store' = store \cup {IF r THEN MobileDoneKey(Folder)
                                             ELSE MobileErrorKey(Folder)}
               /\ hist' = [hist EXCEPT !.stages.mobile_app = r]
          /\ pc' = "c_docfield"
       \/ /\ pc' = "c_except"
          /\ hist' = [hist EXCEPT !.error_report = TRUE]
          /\ UNCHANGED <<mobile_done, store>>
    /\ UNCHANGED <<alloc, sessVars, browser, playwright, current_url,
                   url, drafter_done, doc_field_done, uiVars, page_url,
                   sessions>>

\* Lines 842-843: document_field_main, likewise.
C_DocField ==
    /\ pc = "c_docfield"
    /\ \/ /\ \E r \in BOOLEAN :
               /\ doc_field_done' = r
               /\ store' = store \cup {IF r THEN DocFieldDoneKey(Folder)
                                             ELSE DocFieldErrorKey(Folder)}
               /\ hist' = [hist EXCEPT !.stages.document_field = r]
          /\ pc' = "c_complete"
       \/ /\ pc' = "c_except"
          /\ hist' = [hist EXCEPT !.error_report = TRUE]
          /\ UNCHANGED <<doc_field_done, store>>
    /\ UNCHANGED <<alloc, sessVars, browser, playwright, current_url,
                   url, drafter_done, mobile_done, uiVars, page_url, sessions>>

\* Lines 854-857: the run is recorded as completed.
C_Complete ==
    /\ pc = "c_complete"
    /\ automation_status' = "completed"
    /\ automation_completed' = TRUE
    /\ automation_started' = FALSE
    /\ pc' = "c_final"
    /\ UNCHANGED <<store, alloc, automation_phase, blank_fields, manual_inputs,
                   manual_inputs_submitted, s3_manager, automation_url,
                   localVars, uiVars, page_url, sessions, hist>>

\* Lines 859-878: modules_completed of completion_data, its two entries that
\* are not constants.
CompletionData(mobile, doc_field) ==
    [mobile_app |-> mobile, document_field |-> doc_field]

\* Lines 859-880: upload final_completion_status.json; upload_file re-raises.
C_Final ==
    /\ pc = "c_final"
    /\ \/ /\ store' = store \cup {FinalKey(Folder)}
          /\ hist' = [hist EXCEPT !.final_written = TRUE,
                                  !.final_record =
                                      CompletionData(mobile_done, doc_field_done)]
          /\ pc' = "c_local"
       \/ /\ pc' = "c_except"
          /\ UNCHANGED <<store, hist>>
    /\ UNCHANGED <<alloc, sessVars, localVars, uiVars, page_url, sessions>>

\* Lines 888-899: the optional local copy; writing the file may raise. The
\* function then returns with the browser still open.
C_Local ==
    /\ pc = "c_local"
    /\ \/ /\ pc' = "form"
          /\ hist' = [hist EXCEPT !.ended = "continuing"]
          /\ DropLocals
       \/ /\ pc' = "c_except"
          /\ UNCHANGED <<localVars, page_url, hist>>
    /\ UNCHANGED <<store, alloc, sessVars, uiVars, sessions>>

\* Lines 902-908: the except block records the failure.
C_Except ==
    /\ pc = "c_except"
    /\ automation_status' = "failed"
    /\ automation_started' = FALSE
    /\ pc' = "c_exc_close"
    /\ UNCHANGED <<store, alloc, automation_phase, automation_completed,
                   blank_fields, manual_inputs, manual_inputs_submitted,
                   s3_manager, automation_url, localVars, uiVars, page_url,
                   sessions, hist>>

\* Lines 910-912: if browser: await browser.close().
C_ExcClose ==
    /\ pc = "c_exc_close"
    /\ IF browser = None
       THEN /\ pc' = "c_exc_stop"
            /\ UNCHANGED <<localVars, page_url, sessions, hist>>
       ELSE \/ /\ browser' = "closed"
               /\ sessions' = IF browser = "open" THEN sessions - 1 ELSE sessions
               /\ hist' = [hist EXCEPT !.close_attempted = TRUE]
               /\ pc' = "c_exc_stop"
               /\ UNCHANGED <<playwright, current_url, url, drafter_done,
                              mobile_done, doc_field_done, page_url>>
            \/ /\ hist' = [hist EXCEPT !.close_attempted = TRUE, !.ended = "continuing"]
               /\ pc' = "idle"
               /\ DropLocals
               /\ UNCHANGED sessions
    /\ UNCHANGED <<store, alloc, sessVars, uiVars>>

\* Lines 913-914: if playwright: await playwright.stop(); then the function
\* returns and the script goes on to line 1029.
C_ExcStop ==
    /\ pc = "c_exc_stop"
    /\ IF playwright = None
       THEN pc' = "form"
       ELSE \/ pc' = "form"
            \/ pc' = "idle"
    /\ hist' = [hist EXCEPT !.ended = "continuing"]
    /\ DropLocals
    /\ UNCHANGED <<store, alloc, sessVars, uiVars, sessions>>

ContinuingPhase ==
    \/ C_Init \/ C_Login \/ C_Nav \/ C_Tab \/ C_Fill \/ C_Mobile \/ C_DocField
    \/ C_Complete \/ C_Final \/ C_Local \/ C_Except \/ C_ExcClose \/ C_ExcStop

Next ==
    \/ EditCaseNumber \/ Rerun \/ RunButton \/ SubmitForm
    \/ Dispatch \/ FormBlock \/ Gate
    \/ InitialPhase
    \/ ContinuingPhase

Spec == Init /\ [][Next]_vars

\* ------------------------------------------ interrupted-run specification
\* Starts, and interruptions of a run, in one behaviour of this specification.
MaxInterruptedStarts == 1
MaxInterrupts == 1

\* Places of the phase functions that follow a call into Streamlit
\* (show_step_status at lines 598-601, 609-612, 618-620 and 775-778), where
\* a pending rerun request stops the script.
InterruptPoints == {"i_login", "i_nav", "i_geo", "c_nav"}

\* Lines 939 and 943: the credential inputs are not disabled while a run is
\* in progress. When the operator changes one, Streamlit stops the script at
\* its next call into Streamlit with a signal that is not an Exception, so no
\* except block runs and the session flags stay as they are; the script then
\* starts over from the top. The browser of the stopped run stays open.
Interrupt ==
    /\ pc \in InterruptPoints
    /\ hist.interrupts < MaxInterrupts
    /\ pc' = "dispatch"
    /\ form_shown' = FALSE
    /\ DropLocals
    /\ hist' = [hist EXCEPT !.interrupts = @ + 1]
    /\ UNCHANGED <<store, alloc, sessVars, case_number, submission, sessions>>

NextInterrupt ==
    \/ EditCaseNumber \/ Rerun \/ SubmitForm
    \/ (RunButton /\ hist.runs < MaxInterruptedStarts)
    \/ Dispatch \/ FormBlock \/ Gate
    \/ InitialPhase
    \/ ContinuingPhase
    \/ Interrupt

SpecInterrupt == Init /\ [][NextInterrupt]_vars

\* ------------------------------------------------- gate specification
\* The script at line 1029 of a run that suspended for case "T": the initial
\* phase has stored some non-empty blank-field list and released its browser.
InitGate ==
    /\ store = {GeoKey(<<"T">>), DrafterStartKey(<<"T">>), DrafterDoneKey(<<"T">>)}
    /\ alloc = NoAlloc
    /\ case_number = <<"T">>
    /\ automation_phase = "waiting_for_input"
    /\ automation_started = TRUE
    /\ automation_completed = FALSE
    /\ automation_status = "waiting_for_input"
    /\ blank_fields \in BlankLists
    /\ manual_inputs = <<>>
    /\ manual_inputs_submitted = FALSE
    /\ s3_manager = [case_number |-> <<"T">>, unique_case_folder |-> <<"T">>]
    /\ automation_url = NoUrl
    /\ pc = "form"
    /\ browser = None
    /\ playwright = None
    /\ current_url = NoUrl
    /\ url = NoUrl
    /\ drafter_done = <<>>
    /\ mobile_done = FALSE
    /\ doc_field_done = FALSE
    /\ page_url = NoUrl
    /\ sessions = 0
    /\ form_shown = FALSE
    /\ submission = <<>>
    /\ hist = [HistStart EXCEPT !.runs = 1, !.opened = TRUE,
                                !.close_attempted = TRUE, !.suspended = TRUE,
                                !.suspend_url = RecordUrl(<<"T">>),
                                !.allocs = <<[case |-> <<"T">>, ns |-> <<"T">>]>>,
                                !.ended = "initial"]

NextGate == FormBlock \/ SubmitForm \/ Gate

SpecGate == InitGate /\ [][NextGate]_vars

\* ------------------------------------------------ replay specification
\* continue_automation at line 811 of a run of case "T": the Gate accepted
\* some mapping for some blank-field list, and the page shows the Drafter's
\* Field tab.
InitFill ==
    /\ store = {GeoKey(<<"T">>), DrafterStartKey(<<"T">>), DrafterDoneKey(<<"T">>)}
    /\ alloc = NoAlloc
    /\ case_number = <<"T">>
    /\ automation_phase = "continuing"
    /\ automation_started = TRUE
    /\ automation_completed = FALSE
    /\ automation_status = "running"
    /\ blank_fields \in BlankLists
    /\ manual_inputs \in
          {m \in FormInputs(ValidateAndTransform(blank_fields)) :
              MissingRequired(ValidateAndTransform(blank_fields), m) = <<>>}
    /\ manual_inputs_submitted = TRUE
    /\ s3_manager = [case_number |-> <<"T">>, unique_case_folder |-> <<"T">>]
    /\ automation_url = NoUrl
    /\ pc = "c_fill"
    /\ browser = "open"
    /\ playwright = "started"
    /\ current_url = NoUrl
    /\ url = NoUrl
    /\ drafter_done = <<>>
    /\ mobile_done = FALSE
    /\ doc_field_done = FALSE
    /\ page_url = RecordUrl(<<"T">>)
    /\ sessions = 1
    /\ form_shown = FALSE
    /\ submission = <<>>
    /\ hist = [HistStart EXCEPT !.runs = 1, !.opened = TRUE, !.suspended = TRUE,
                                !.suspend_url = RecordUrl(<<"T">>),
                                !.first_nav = [kind |-> "search",
                                               target |-> RecordUrl(<<"T">>)],
                                !.nav = [goto |-> "none", search |-> "ok"],
                                !.gate_result = "accepted",
                                !.allocs = <<[case |-> <<"T">>, ns |-> <<"T">>]>>]

NextFill == C_Fill

SpecFill == InitFill /\ [][NextFill]_vars

\* --------------------------------------------- allocator specification
AllocAlphabet == {"T", "1", "_", " "}

RECURSIVE SeqsUpTo(_, _)
SeqsUpTo(S, n) ==
    IF n = 0 THEN {<<>>}
    ELSE LET shorter == SeqsUpTo(S, n - 1)
         IN  shorter \cup {Append(s, c) : s \in {t \in shorter : Len(t) = n - 1}, c \in S}

\* Raw case numbers as the constructor receives them: stripped and non-empty.
AllocCaseIds == {s \in SeqsUpTo(AllocAlphabet, MaxLen) : s # <<>> /\ Strip(s) = s}

FailChoices == {NoFail} \cup (0..(MaxSuffix + 1))

FirstArtifact(ns) == ObjectKey(ns, "json_data", "geolocation_data.json")

InitAlloc ==
    /\ \E id \in AllocCaseIds, S \in SUBSET (0..MaxSuffix), f \in FailChoices :
         /\ store = {FirstArtifact(IF k = 0 THEN CleanCaseNumber(id)
                                   ELSE FolderWithCounter(CleanCaseNumber(id), k)) : k \in S}
         /\ alloc = [pc |-> "ready", case |-> id, failAt |-> f, n |-> 0,
                     result |-> None, probeFailed |-> FALSE, prev |-> None,
                     prevCase |-> None, prevUploaded |-> FALSE]
    /\ WfStart(<<"T">>)

\* UnifiedS3Manager(case_number) is constructed.
AllocApply ==
    /\ alloc.pc = "ready"
    /\ alloc.n < MaxAllocs
    /\ LET m == S3ManagerInit(alloc.case, store, alloc.failAt)
       IN  alloc' = [alloc EXCEPT !.pc = "allocated", !.n = @ + 1,
                                  !.result = m.unique_case_folder,
                                  !.probeFailed = m.probeFailed]
    /\ UNCHANGED <<store, wfVars>>

\* The run writes its first artifact; the operator then starts another run.
AllocUpload ==
    /\ alloc.pc = "allocated"
    /\ store' = store \cup {FirstArtifact(alloc.result)}
    /\ \E id \in AllocCaseIds, f \in FailChoices :
         alloc' = [alloc EXCEPT !.pc = "ready", !.case = id, !.failAt = f,
                                !.prev = alloc.result, !.prevCase = alloc.case,
                                !.prevUploaded = TRUE]
    /\ UNCHANGED wfVars

\* The run ends before its first artifact is written.
AllocAbandon ==
    /\ alloc.pc = "allocated"
    /\ \E f \in FailChoices :
         alloc' = [alloc EXCEPT !.pc = "ready", !.failAt = f,
                                !.prev = alloc.result, !.prevCase = alloc.case,
                                !.prevUploaded = FALSE]
    /\ UNCHANGED <<store, wfVars>>

NextAlloc == AllocApply \/ AllocUpload \/ AllocAbandon

SpecAlloc == InitAlloc /\ [][NextAlloc]_vars


\* ------------------------------------------------ claims on the allocator
HasObjects(ns, st) == \E k \in st : k.root = "cases" /\ k.ns = ns

\* The namespace the contract promises for token T against store st.
ExpectedNamespace(T, st) ==
    IF ~HasObjects(T, st) THEN T
    ELSE LET free(k) == ~HasObjects(FolderWithCounter(T, k), st)
             k0 == CHOOSE k \in 1..(Cardinality(st) + 1) :
                      free(k) /\ \A j \in 1..(k - 1) : ~free(j)
         IN  FolderWithCounter(T, k0)

\* C8: when every probe is answered, allocation returns the cleaned token T if
\* nothing is stored under cases/T/, and otherwise T_k for the smallest k >= 1
\* with nothing stored under cases/T_k/; allocating again for the same case
\* number once the first namespace holds an artifact yields a different
\* namespace, the token followed by a numeric suffix.
C8_SmallestFreeSuffix ==
    (alloc.pc = "allocated" /\ ~alloc.probeFailed) =>
        LET T == CleanCaseNumber(alloc.case)
        IN  /\ alloc.result = ExpectedNamespace(T, store)
            /\ ~HasObjects(alloc.result, store)
            /\ (alloc.prevUploaded /\ alloc.prevCase = alloc.case) =>
                  /\ alloc.result # alloc.prev
                  /\ \E k \in 1..(Cardinality(store) + 1) :
                        alloc.result = FolderWithCounter(T, k)

\* A second allocation for the same case number, after T and T_1 are both in
\* the store, returned T_2.
C8_Witness ==
    /\ alloc.pc = "allocated"
    /\ ~alloc.probeFailed
    /\ alloc.prevUploaded
    /\ alloc.prevCase = alloc.case
    /\ HasObjects(CleanCaseNumber(alloc.case), store)
    /\ alloc.result = FolderWithCounter(CleanCaseNumber(alloc.case), 2)

\* clean_case followed by _YYYYMMDD_HHMMSS.
IsTimestampSuffixed(ns, clean_case) ==
    LET n == Len(clean_case)
    IN  /\ Len(ns) = n + 16
        /\ SubSeq(ns, 1, n) = clean_case
        /\ ns[n + 1] = "_"
        /\ \A i \in (n + 2)..(n + 9) : ns[i] \in DigitChars
        /\ ns[n + 10] = "_"
        /\ \A i \in (n + 11)..(n + 16) : ns[i] \in DigitChars

\* C9: when an existence probe fails during allocation, the allocator returns a
\* timestamp-suffixed namespace and never the plain unsuffixed token.
C9_ProbeFailureGivesTimestamp ==
    (alloc.pc = "allocated" /\ alloc.probeFailed) =>
        /\ alloc.result # CleanCaseNumber(alloc.case)
        /\ IsTimestampSuffixed(alloc.result, CleanCaseNumber(alloc.case))


\* ------------------------------------------------ claims on the workflow
\* The phase of the workflow as the operator sees it: the status when the
\* run has failed or completed, the phase field otherwise.
WorkflowPhase ==
    IF automation_status = "failed" THEN "failed"
    ELSE IF automation_status = "completed" THEN "completed"
    ELSE automation_phase

InContinuing ==
    pc \in {"c_init", "c_login", "c_nav", "c_tab", "c_fill", "c_mobile",
            "c_docfield", "c_complete", "c_final", "c_local"}

\* C1: the location captured when the initial phase suspends is the location
\* the continuing phase of the same run receives, and the first navigation it
\* attempts is to that location.
C1_ContinuingResumesAtCapturedUrl ==
    (hist.suspended /\ InContinuing) =>
        /\ url = hist.suspend_url
        /\ hist.first_nav # NoNav =>
              hist.first_nav = [kind |-> "goto", target |-> hist.suspend_url]

\* C2: within a run the phase only moves initial -> waiting_for_input ->
\* continuing -> completed, or to failed; a new run starts at initial.
C2_PhaseOrder ==
    [][ \/ WorkflowPhase' = WorkflowPhase
        \/ WorkflowPhase' = "failed"
        \/ WorkflowPhase = "initial" /\ WorkflowPhase' = "waiting_for_input"
        \/ WorkflowPhase = "waiting_for_input" /\ WorkflowPhase' = "continuing"
        \/ WorkflowPhase = "continuing" /\ WorkflowPhase' = "completed"
        \/ hist'.runs = hist.runs + 1 /\ WorkflowPhase' = "initial" ]_vars

\* A value that is empty or consists of blanks only.
IsBlankValue(v) == \A i \in 1..Len(v) : v[i] = " "

RequiredLeftBlank ==
    \E k \in SeqRange(blank_fields) :
        /\ k \in DOMAIN FieldCatalog
        /\ FieldCatalog[k].required
        /\ IsBlankValue(submission[k])

\* C3: a submit of the form with a required field empty or blank is rejected:
\* the phase stays waiting_for_input, the stored manual inputs are unchanged
\* and the continuing phase is not started.
C3_GateRejectsMissingRequired ==
    [][ (pc = "gate" /\ RequiredLeftBlank) =>
            /\ automation_phase' = "waiting_for_input"
            /\ automation_status' = automation_status
            /\ manual_inputs' = manual_inputs
            /\ manual_inputs_submitted' = manual_inputs_submitted
            /\ pc' = "idle" ]_vars

\* A submit whose only defect is a required field holding blanks was rejected.
C3_Witness ==
    /\ pc = "idle"
    /\ hist.gate_result = "rejected"
    /\ automation_phase = "waiting_for_input"
    /\ \E k \in DOMAIN submission : submission[k] = <<" ">>
    /\ \A k \in DOMAIN submission : submission[k] # <<>>

\* C4: while the phase is waiting_for_input and the script is at rest, no
\* browser session is open, also when closing the session raised.
C4_NoSessionWhileWaiting ==
    (pc = "idle" /\ automation_phase = "waiting_for_input") => sessions = 0

\* C5: a phase that opened a browser session and ended in failed attempted to
\* close that session before it stopped.
C5_FailedPhaseAttemptsClose ==
    (hist.ended \in {"initial", "continuing"} /\ automation_status = "failed"
       /\ hist.opened) => hist.close_attempted

\* C6: the run is recorded as completed, by the status or by the
\* automation_completed flag, only when the final completion-status artifact
\* of the run has been written.
C6_CompletedOnlyAfterFinalArtifact ==
    (automation_status = "completed" \/ automation_completed)
        => hist.final_written

\* C7: the namespaces allocated by executions of the initial phase for one
\* case id are pairwise different.
C7_FreshNamespacePerRun ==
    \A i, j \in 1..Len(hist.allocs) :
        (i < j /\ hist.allocs[i].case = hist.allocs[j].case)
            => hist.allocs[i].ns # hist.allocs[j].ns

\* ------------------------------------------ two operator sessions
\* Two operator sessions, each constructing its own UnifiedS3Manager against
\* the one store. alloc holds a logical clock and, per session, the position
\* in __init__ / _generate_unique_case_folder with its local variables.
OperatorSessions == {"A", "B"}

SessionStart == [pc |-> "start", case |-> <<>>, clean_case |-> <<>>,
                 counter |-> 0, base_folder |-> <<>>, probe_failed |-> FALSE,
                 first_probe |-> 0, returned_at |-> 0]

InitSessions ==
    /\ store \in SUBSET {FirstArtifact(<<"T">>), FirstArtifact(<<"T", "_", "1">>)}
    /\ alloc = [clock |-> 0, s |-> [o \in OperatorSessions |-> SessionStart]]
    /\ WfStart(<<>>)

\* Lines 25-28 and 56-60: the case number is cleaned, the counter starts at 0.
S_Begin(o) ==
    /\ alloc.s[o].pc = "start"
    /\ \E c \in WfCaseIds :
         LET clean_case == CleanCaseNumber(IF c = <<>> THEN UNKNOWN ELSE c)
         IN  alloc' = [alloc EXCEPT !.s[o] =
                          [@ EXCEPT !.pc = "probe", !.case = c,
                                    !.clean_case = clean_case,
                                    !.base_folder = clean_case]]
    /\ UNCHANGED <<store, wfVars>>

\* Lines 62-67: one test of the while condition; the loop either goes on to
\* the next suffix or returns the folder name.
S_Probe(o) ==
    /\ alloc.s[o].pc = "probe"
    /\ \E fails \in BOOLEAN :
         LET me == alloc.s[o]
             now == alloc.clock + 1
             seen == [me EXCEPT !.first_probe = IF @ = 0 THEN now ELSE @,
                                !.probe_failed = @ \/ fails]
         IN  alloc' =
               [clock |-> now,
                s |-> [alloc.s EXCEPT ![o] =
                   IF CaseFolderExists(me.base_folder, store, fails)
                   THEN [seen EXCEPT !.counter = me.counter + 1,
                                     !.base_folder =
                                        FolderWithCounter(me.clean_case, me.counter + 1)]
                   ELSE [seen EXCEPT !.pc = "returned", !.returned_at = now]]]
    /\ UNCHANGED <<store, wfVars>>

\* automate.py lines 631-639: the first object the run writes to its folder.
S_Upload(o) ==
    /\ alloc.s[o].pc = "returned"
    /\ store' = store \cup {FirstArtifact(alloc.s[o].base_folder)}
    /\ alloc' = [alloc EXCEPT !.clock = @ + 1, !.s[o].pc = "uploaded"]
    /\ UNCHANGED wfVars

NextSessions ==
    \E o \in OperatorSessions : S_Begin(o) \/ S_Probe(o) \/ S_Upload(o)

SpecSessions == InitSessions /\ [][NextSessions]_vars

\* C10: two sessions allocating for the same case id get different
\* namespaces whenever the second session's first probe happens after the
\* first session's allocation has returned (no probe having failed).
C10_SequentialSessionsDiffer ==
    \A a, b \in OperatorSessions :
        LET first == alloc.s[a]
            second == alloc.s[b]
        IN  (/\ a # b
             /\ first.pc \in {"returned", "uploaded"}
             /\ second.pc \in {"returned", "uploaded"}
             /\ first.case = second.case
             /\ ~first.probe_failed /\ ~second.probe_failed
             /\ second.first_probe > first.returned_at)
            => first.base_folder # second.base_folder

\* ------------------------------------------------- store specification
\* The store as the uploads see it: each key with the body last put under it.
\* Uploads come from a manager of one of two folders.
StoreFolders == {<<"T">>, <<"T", "_", "1">>}
StoreCategories == {"json_data", "screenshots"}
StoreFiles == {"final_corrected_data.json", "geolocation_data.json"}
Bodies == {"v1", "v2"}

\* put_object(Bucket, Key, Body): the body under the key is replaced.
PutObject(st, key, body) ==
    {o \in st : o.key # key} \cup {[key |-> key, body |-> body]}

\* UnifiedS3Manager.upload_file: s3_key = f"{self.folders[category]}/{filename}".
UploadFile(st, folder, category, filename, body) ==
    PutObject(st, ObjectKey(folder, category, filename), body)

\* S3DataManager.upload with the base path of the manager it was built from:
\* full_key = f"{self.base_path}/{key}", key being "category/filename".
S3DataManagerUpload(st, folder, category, filename, body) ==
    PutObject(st, ObjectKey(folder, category, filename), body)

InitStore ==
    /\ store = {}
    /\ alloc = NoAlloc
    /\ WfStart(<<>>)

\* One call of upload_file; an exception of put_object is re-raised and
\* leaves the store as it was.
StoreUploadFile ==
    /\ \E f \in StoreFolders, c \in StoreCategories, n \in StoreFiles, b \in Bodies :
         \/ store' = UploadFile(store, f, c, n, b)
         \/ store' = store
    /\ UNCHANGED <<alloc, wfVars>>

\* One call of S3DataManager.upload.
StoreDataManagerUpload ==
    /\ \E f \in StoreFolders, c \in StoreCategories, n \in StoreFiles, b \in Bodies :
         \/ store' = S3DataManagerUpload(store, f, c, n, b)
         \/ store' = store
    /\ UNCHANGED <<alloc, wfVars>>

NextStore == StoreUploadFile \/ StoreDataManagerUpload

SpecStore == InitStore /\ [][NextStore]_vars

\* C11: an upload never replaces the content stored under a key that already
\* holds an object: every object of the store is there, unchanged, after
\* every step.
C11_UploadNeverOverwrites ==
    [][ \A o \in store : o \in store' ]_vars

\* ------------------------------------------ claims on the workflow's store
\* The categories declared by UnifiedS3Manager.folders.
DeclaredCategories ==
    {"logs", "screenshots", "documents", "json_data", "downloads",
     "ai_corrections", "dlc_data", "extracted_files"}

AllocatedNamespaces == {hist.allocs[i].ns : i \in 1..Len(hist.allocs)}

\* C12: every object written during a case run has a key
\* cases/{namespace}/{category}/{filename} with the namespace allocated for a
\* run and one of the eight declared categories.
C12_KeysUnderRunNamespace ==
    \A k \in store :
        /\ k.root = "cases"
        /\ k.ns \in AllocatedNamespaces
        /\ k.cat \in DeclaredCategories

\* ------------------------------------- claims on the continuing phase
\* C13: with a saved location, the continuing phase first attempts to go
\* there; when that fails the case search is invoked, and the navigation
\* block raises only when the case search failed too.
C13_NavigationFallsBackToSearch ==
    [][ (pc = "c_nav" /\ url # NoUrl) =>
            /\ hist'.first_nav = [kind |-> "goto", target |-> url]
            /\ hist'.nav.goto = "failed" => hist'.nav.search # "none"
            /\ pc' = "c_except" =>
                  (hist'.nav.goto = "failed" /\ hist'.nav.search = "failed")
            /\ automation_status' = "running" ]_vars

\* The saved location could not be reached, the case search worked, and the
\* phase went on to the Drafter's Field tab.
C13_Witness ==
    /\ pc = "c_tab"
    /\ hist.first_nav.kind = "goto"
    /\ hist.nav = [goto |-> "failed", search |-> "ok"]
    /\ automation_status = "running"

\* C14: the continuing phase replays exactly the accepted mapping: for every
\* key one write is attempted, a select for a dropdown and a fill for a text
\* field, with the value submitted for that key, whether or not the write
\* of another key failed.
C14_ReplayWritesEveryKey ==
    [][ pc = "c_fill" =>
          /\ \A k \in DOMAIN manual_inputs :
                \E w \in hist'.writes :
                    /\ w.key = k
                    /\ w.value = manual_inputs[k]
                    /\ w.kind = IF FieldCatalog[k].type = "dropdown"
                                THEN "select" ELSE "fill"
          /\ \A w \in hist'.writes : w.key \in DOMAIN manual_inputs
          /\ \A w, x \in hist'.writes : w.key = x.key => w = x ]_vars

\* A replay of two or more keys in which the write of the first key failed
\* and a later key was written.
C14_Witness ==
    /\ pc = "c_mobile"
    /\ \E w, x \in hist.writes :
          /\ KeyIndex(w.key) < KeyIndex(x.key)
          /\ ~w.ok
          /\ x.ok

\* C15: a phase that ended in failed has uploaded, or attempted to upload, a
\* status artifact with status "failed" before it stopped.
C15_FailedPhaseWroteFailedArtifact ==
    (hist.ended \in {"initial", "continuing"} /\ automation_status = "failed")
        => hist.error_report

\* C16: the workflow is never stuck: when the script has finished a run with
\* no automation running, a case number entered and no form awaiting the
\* operator, the start button is enabled (so a failed workflow can always be
\* started afresh).
C16_NeverStuckWithStartDisabled ==
    (pc = "idle" /\ Strip(case_number) # <<>> /\ ~form_shown)
        => ~ButtonDisabled

\* C17: an initial phase in which the upload of an artifact other than the
\* namespace marker failed (here the geolocation record) does not end in
\* failed.
C17_UploadFailureNotFatal ==
    (hist.ended = "initial" /\ hist.upload_failed)
        => automation_status # "failed"

\* C18: in continuing, whatever way the mobile-app stage ends, the
\* document-field stage runs next; whatever way the document-field stage
\* ends, the run goes on to be recorded as completed; and a written final
\* artifact records mobile_app and document_field as the stages ended.
C18_StagesIndependentlyFallible ==
    [][ /\ (pc = "c_mobile" => pc' = "c_docfield")
        /\ (pc = "c_docfield" => pc' = "c_complete")
        /\ (hist'.final_written => hist'.final_record = hist'.stages) ]_vars

\* C19: once the reconciliation of an initial phase has yielded an empty
\* blank-field list, the workflow stays in phase initial, is never recorded
\* as waiting for input or completed, and the phase ends in failed.
C19_EmptyBlankListIsSoftFailure ==
    hist.empty_yield =>
        /\ automation_phase = "initial"
        /\ automation_status \in {"running", "failed"}
        /\ ~automation_completed
        /\ (hist.ended = "initial" => automation_status = "failed")

\* An initial phase ended in failed after an empty blank-field list.
C19_Witness ==
    /\ hist.empty_yield
    /\ hist.ended = "initial"
    /\ automation_status = "failed"
    /\ pc = "idle"

\* C20: when the script reaches the form block in waiting_for_input and no
\* descriptor is left to present, that same step, with no submission by the
\* operator, sets the manual inputs to the empty mapping and the phase to
\* continuing, and the script starts over.
C20_GateShortCircuitsOnEmptyDescriptors ==
    [][ (/\ pc = "form"
         /\ automation_phase = "waiting_for_input"
         /\ ValidateAndTransform(blank_fields) = <<>>)
        => /\ manual_inputs' = <<>>
           /\ manual_inputs_submitted'
           /\ automation_phase' = "continuing"
           /\ ~form_shown'
           /\ hist'.gate_result = None
           /\ pc' = "dispatch" ]_vars

\* The short-circuit has happened for a list whose only key is unknown to
\* the catalog: continuing with no inputs and no submission handled.
C20_Witness ==
    /\ pc = "dispatch"
    /\ automation_phase = "continuing"
    /\ blank_fields # <<>>
    /\ ValidateAndTransform(blank_fields) = <<>>
    /\ manual_inputs = <<>>
    /\ manual_inputs_submitted
    /\ hist.gate_result = None

\* C21: a submit of the form in which every required descriptor holds a
\* non-blank value is accepted whatever the optional descriptors hold: the
\* stored manual inputs become the submitted mapping, the phase becomes
\* continuing and the script starts over.
C21_GateAcceptsWithOptionalEmpty ==
    [][ (pc = "gate" /\ ~RequiredLeftBlank) =>
            /\ manual_inputs' = submission
            /\ manual_inputs_submitted'
            /\ automation_phase' = "continuing"
            /\ automation_status' = "running"
            /\ hist'.gate_result = "accepted"
            /\ pc' = "dispatch" ]_vars

\* The blank-field list <<"Pincode">> was submitted with Pincode left empty
\* and accepted.
C21_Witness ==
    /\ pc = "dispatch"
    /\ hist.gate_result = "accepted"
    /\ automation_phase = "continuing"
    /\ blank_fields = <<"Pincode">>
    /\ DOMAIN manual_inputs = {"Pincode"}
    /\ manual_inputs["Pincode"] = <<>>

\* C22: at most one run is active in a session: the start button is disabled
\* while the status is running or waiting_for_input, and since the last
\* start each phase has been entered at most once.
C22_OneRunOnePhaseExecution ==
    /\ (automation_status \in {"running", "waiting_for_input"} => ButtonDisabled)
    /\ hist.executed.initial <= 1
    /\ hist.executed.continuing <= 1

\* ------------------------------------------- reconciliation specification
\* Python's None where a string is expected.
NoValue == <<None>>

\* Truth of a string or None.
Truthy(v) == v # NoValue /\ v # <<>>

\* A dict as the sequence of its <<key, value>> items in insertion order.
DictKeys(d) == {d[i][1] : i \in 1..Len(d)}

KeyList(d) == [i \in 1..Len(d) |-> d[i][1]]

\* dict.get(k): the value, or None.
DictGet(d, k) ==
    IF k \in DictKeys(d)
    THEN d[CHOOSE i \in 1..Len(d) : d[i][1] = k][2]
    ELSE NoValue

\* d[k] = v: replaces the value of a key, or adds the key at the end.
DictSet(d, k, v) ==
    IF k \in DictKeys(d)
    THEN [i \in 1..Len(d) |-> IF d[i][1] = k THEN <<k, v>> ELSE d[i]]
    ELSE Append(d, <<k, v>>)

\* get_default_drafter_template()["drafter_field"], a sample of its items in
\* template order: the two fields with a preset value, one of each group the
\* fill pass treats differently.
DefaultDrafterTemplate ==
    << <<"Document Provided for Valuation", <<" ">> >>,
       <<"Status of holding", <<>> >>,
       <<"Type of Property As per Document", <<>> >>,
       <<"Flats(on each floor)", <<>> >>,
       <<"Pincode", <<>> >>,
       <<"Locality", <<>> >>,
       <<"North - As per Document(Boundary)", <<>> >>,
       <<"Unit For Dimension (Doc)", <<"ft">> >> >>

\* A mapping that spells the boundary field as the template does, so that
\* every blank field of the sampled template can be supplied by a record.
DocFieldMappingAsTemplate ==
    << <<"Status of holding", "Holding_status">>,
       <<"Type of Property As per Document", "Type_of_Property_As_per_document">>,
       <<"Pincode", "pincode">>,
       <<"Locality", "Locality">>,
       <<"North - As per Document(Boundary)", "property_boundaries.north">> >>

\* doc_field_mapping, the items of the sampled fields: drafter field, then
\* the field of the document record.
DocFieldMapping ==
    << <<"Status of holding", "Holding_status">>,
       <<"Type of Property As per Document", "Type_of_Property_As_per_document">>,
       <<"Pincode", "pincode">>,
       <<"Locality", "Locality">>,
       <<"North - As Per Document(Boundary)", "property_boundaries.north">> >>

\* image_field_mapping and top_level_image_mapping (they are equal), the item
\* of the sampled field.
ImageFieldMapping == << <<"Flats(on each floor)", "FlatOnEachFloor">> >>

\* Document records in the store: each sampled field absent, "NA", empty or
\* a value.
DocFields == {"Holding_status", "Type_of_Property_As_per_document", "pincode",
              "Locality", "property_boundaries.north"}
DocValues == {<<"NA">>, <<>>, <<"Lease Hold">>}
\* _get_fallback_document_result as the document pipeline stores it, its
\* sampled fields: Holding_status is "Free hold", pincode is "000000", the
\* others "NA".
FallbackDocumentAnalysis ==
    [f \in DocFields |-> CASE f = "Holding_status" -> <<"Free hold">>
                            [] f = "pincode" -> <<"000000">>
                            [] OTHER -> <<"NA">>]
DocRecords ==
    UNION {[S -> DocValues] : S \in SUBSET DocFields} \cup {FallbackDocumentAnalysis}

\* Image records in the store: a drafter_field dict (or none) and top-level
\* fields. The nested dict may name a target field directly.
ImageNestedRecords ==
    UNION {[S -> {<<"NA">>, <<>>, <<"2">>}] : S \in SUBSET {"FlatOnEachFloor"}}
      \cup {[f \in {"Status of holding"} |-> <<"Free Hold">>],
            [f \in {"Status of holding", "FlatOnEachFloor"} |->
                IF f = "FlatOnEachFloor" THEN <<"2">> ELSE <<"Free Hold">>]}
ImageTopRecords ==
    UNION {[S -> {<<"3">>}] : S \in SUBSET {"FlatOnEachFloor"}}
ImageRecords ==
    [has_nested : {TRUE}, nested : ImageNestedRecords, top : ImageTopRecords]
      \cup [has_nested : {FALSE}, nested : {<<>>}, top : ImageTopRecords \ {<<>>}]

\* The default template read as an image record: its only top-level key is
\* drafter_field.
TemplateAsImage ==
    [has_nested |-> TRUE,
     nested |-> [k \in DictKeys(DefaultDrafterTemplate) |->
                    DictGet(DefaultDrafterTemplate, k)],
     top |-> <<>>]

\* What download_json finds: a record, or nothing (it then returns None).
Absent == [present |-> FALSE]
Stored(r) == [present |-> TRUE, record |-> r]

\* load_extracted_data_only: the image record, or the default template when
\* none is stored or the stored one is empty.
LoadExtractedDataOnly(image) ==
    IF image.present /\ (image.record.has_nested \/ image.record.top # <<>>)
    THEN image.record
    ELSE TemplateAsImage

\* load_combined_analysis_data: image_analysis is always there; the upload of
\* the combined record may fail, and the handler answers the default template.
LoadCombinedAnalysisData(image, doc, uploadOk) ==
    IF uploadOk
    THEN [kind |-> "combined",
          image |-> LoadExtractedDataOnly(image),
          has_doc |-> doc.present /\ doc.record # <<>>,
          doc |-> IF doc.present THEN doc.record ELSE <<>>]
    ELSE [kind |-> "template", image |-> TemplateAsImage, has_doc |-> FALSE,
          doc |-> <<>>]

\* Lines 226-242: the loop over doc_field_mapping, from item i on.
RECURSIVE ApplyDocMapping(_, _, _)
ApplyDocMapping(d, doc, i) ==
    IF i > Len(DocFieldMapping) THEN d
    ELSE LET drafter_field == DocFieldMapping[i][1]
             doc_field == DocFieldMapping[i][2]
         IN  ApplyDocMapping(
                 IF doc_field \in DOMAIN doc /\ doc[doc_field] # <<"NA">>
                 THEN DictSet(d, drafter_field, doc[doc_field])
                 ELSE d,
                 doc, i + 1)

\* Lines 264-270 and 282-288: one loop over an image mapping, from item i on;
\* a field is written only when the drafter field is still falsy.
RECURSIVE ApplyImageMapping(_, _, _)
ApplyImageMapping(d, fields, i) ==
    IF i > Len(ImageFieldMapping) THEN d
    ELSE LET drafter_field == ImageFieldMapping[i][1]
             image_field == ImageFieldMapping[i][2]
         IN  ApplyImageMapping(
                 IF /\ image_field \in DOMAIN fields
                    /\ Truthy(fields[image_field])
                    /\ fields[image_field] # <<"NA">>
                    /\ ~Truthy(DictGet(d, drafter_field))
                 THEN DictSet(d, drafter_field, fields[image_field])
                 ELSE d,
                 fields, i + 1)

\* A merge in which every target field the image's drafter_field names
\* replaces what the document pass left.
RECURSIVE ImageOverwrites(_, _, _)
ImageOverwrites(d, nested, i) ==
    IF i > Len(d) THEN d
    ELSE ImageOverwrites(
             IF d[i][1] \in DOMAIN nested THEN DictSet(d, d[i][1], nested[d[i][1]])
             ELSE d,
             nested, i + 1)

ConvertCombinedImageWins(combined) ==
    LET afterDoc == IF combined.has_doc
                    THEN ApplyDocMapping(DefaultDrafterTemplate, combined.doc, 1)
                    ELSE DefaultDrafterTemplate
    IN  ImageOverwrites(afterDoc, combined.image.nested, 1)

\* convert_combined_to_drafter_format: the template, then the document
\* record, then the image record's drafter_field, then its top-level fields.
ConvertCombinedToDrafterFormat(combined) ==
    LET afterDoc == IF combined.has_doc
                    THEN ApplyDocMapping(DefaultDrafterTemplate, combined.doc, 1)
                    ELSE DefaultDrafterTemplate
        afterNested == IF combined.image.has_nested
                       THEN ApplyImageMapping(afterDoc, combined.image.nested, 1)
                       ELSE afterDoc
    IN  ApplyImageMapping(afterNested, combined.image.top, 1)

\* A variant that also reports a field holding blanks only.
FindBlankFieldsStripped(d) ==
    SelectSeq(KeyList(d), LAMBDA k : Strip(DictGet(d, k)) = <<>>)

\* find_blank_fields: the keys whose value has length 0, in dict order.
FindBlankFields(d) ==
    SelectSeq(KeyList(d), LAMBDA k : DictGet(d, k) = <<>>)

\* fill_field and select_dropdown return at once for a falsy or blank value;
\* otherwise one write of the value into the field of that label is tried.
WriteCall(label, kind, value) ==
    IF ~Truthy(value) \/ Strip(value) = <<>>
    THEN {}
    ELSE {[label |-> label, kind |-> kind, value |-> value]}

\* Lines 411-536 of process_drafter_fields, the calls that concern the sampled
\* fields, given d = data["drafter_field"]. The loop over address_fields
\* binds each (label, value) pair to one name and looks the pair up in d.
FillPass(d) ==
    WriteCall("Document Provided for Valuation", "fill",
              DictGet(d, "Document Provided for Valuation"))
      \cup WriteCall("Flats(on each floor)", "fill", DictGet(d, "Flats(on each floor)"))
      \cup WriteCall("Status of holding", "select", DictGet(d, "Status of holding"))
      \cup WriteCall("Type of Property As per document", "select",
                     DictGet(d, "Type of Property As per document"))
      \cup WriteCall("Locality", "fill", NoValue)
      \cup {[label |-> "Address as per Identifier Docs", kind |-> "fill",
             value |-> DictGet(d, "Locality")]}
      \cup (IF DictGet(d, "Pincode") # <<"NA">>
            THEN WriteCall("Pincode", "fill", DictGet(d, "Pincode")) ELSE {})
      \cup WriteCall("Unit for Dimension (Doc)", "select", <<"ft">>)
      \cup WriteCall("North - As per Document(Boundary)", "fill",
                     DictGet(d, "North - As per Document(Boundary)"))
      \cup WriteCall("Unit for Dimension (Doc)", "select",
                     DictGet(d, "Unit for Dimension (Doc)"))

\* The label under which the form knows a field of the record: the fill pass
\* spells the unit dropdown "Unit for Dimension (Doc)" (lines 487 and 511).
FormLabel(k) ==
    IF k = "Unit For Dimension (Doc)" THEN "Unit for Dimension (Doc)" ELSE k

NoCombined ==
    [kind |-> "none", image |-> TemplateAsImage, has_doc |-> FALSE, doc |-> <<>>]

\* process_drafter_fields is entered; the store holds any image record and
\* any document record, or none.
InitMerge ==
    /\ \E image \in {Absent} \cup {Stored(r) : r \in ImageRecords},
          doc \in {Absent} \cup {Stored(r) : r \in DocRecords} :
         store = [image |-> image, doc |-> doc]
    /\ alloc = [pc |-> "load", combined |-> NoCombined, data |-> <<>>,
                blank_fields |-> <<>>, writes |-> {},
                result |-> [ok |-> FALSE, list |-> <<>>]]
    /\ WfStart(<<"T">>)

\* Line 389: combined_data = self.load_combined_analysis_data(case_number).
M_Load ==
    /\ alloc.pc = "load"
    /\ \E uploadOk \in BOOLEAN :
         alloc' = [alloc EXCEPT
                     !.combined = LoadCombinedAnalysisData(store.image, store.doc,
                                                           uploadOk),
                     !.pc = "convert"]
    /\ UNCHANGED <<store, wfVars>>

\* Lines 391-407: the converted record, or the default template; then the
\* blank fields of its drafter_field.
M_Convert ==
    /\ alloc.pc = "convert"
    /\ LET data == IF alloc.combined.kind = "combined"
                   THEN ConvertCombinedToDrafterFormat(alloc.combined)
                   ELSE DefaultDrafterTemplate
       IN  alloc' = [alloc EXCEPT !.data = data,
                                  !.blank_fields = FindBlankFields(data),
                                  !.pc = "fill"]
    /\ UNCHANGED <<store, wfVars>>

\* Lines 409-560: the fill pass; the function returns the blank fields, or
\* False when the page raised on the way (the writes up to there are not
\* told apart here).
M_Fill ==
    /\ alloc.pc = "fill"
    /\ \E pageOk \in BOOLEAN :
         alloc' = [alloc EXCEPT
                     !.writes = FillPass(alloc.data),
                     !.result = IF pageOk
                                THEN [ok |-> TRUE, list |-> alloc.blank_fields]
                                ELSE [ok |-> FALSE, list |-> <<>>],
                     !.pc = "done"]
    /\ UNCHANGED <<store, wfVars>>

NextMerge == M_Load \/ M_Convert \/ M_Fill

SpecMerge == InitMerge /\ [][NextMerge]_vars

\* ------------------------------------------ claims on the reconciliation
\* The non-"NA" values the document record of the store supplies for a target
\* key, and those the image record supplies (under the target's own name in
\* its drafter_field, or under a mapped image field).
DocSupplied(k) ==
    IF ~store.doc.present THEN {}
    ELSE {store.doc.record[DocFieldMapping[i][2]] :
            i \in {j \in 1..Len(DocFieldMapping) :
                     /\ DocFieldMapping[j][1] = k
                     /\ DocFieldMapping[j][2] \in DOMAIN store.doc.record}}
           \ {<<"NA">>}

ImageSupplied(k) ==
    IF ~store.image.present THEN {}
    ELSE LET r == store.image.record
             fields == {ImageFieldMapping[i][2] :
                          i \in {j \in 1..Len(ImageFieldMapping) :
                                   ImageFieldMapping[j][1] = k}}
         IN  ({r.nested[f] : f \in (fields \cup {k}) \cap DOMAIN r.nested}
                \cup {r.top[f] : f \in fields \cap DOMAIN r.top})
               \ {<<"NA">>, <<>>}

\* The record after the document pass alone.
AfterDocumentPass ==
    IF alloc.combined.has_doc
    THEN ApplyDocMapping(DefaultDrafterTemplate, alloc.combined.doc, 1)
    ELSE DefaultDrafterTemplate

\* C23: in a converted record, a target key for which the document record
\* and the image record both supply a value holds the document's value, and
\* the record differs from the outcome of the document pass only in fields
\* that pass left blank.
C23_DocumentValueWins ==
    (alloc.pc \in {"fill", "done"} /\ alloc.combined.kind = "combined") =>
        /\ \A k \in DictKeys(alloc.data) :
              (DocSupplied(k) # {} /\ ImageSupplied(k) # {})
                  => DictGet(alloc.data, k) \in DocSupplied(k)
        /\ \A k \in DictKeys(alloc.data) :
              DictGet(alloc.data, k) # DictGet(AfterDocumentPass, k)
                  => DictGet(AfterDocumentPass, k) = <<>>

\* Status of holding is "Lease Hold" in the document record and "Free Hold"
\* in the image record; the converted record holds "Lease Hold", and the
\* image pass has filled the blank Flats(on each floor).
C23_Witness ==
    /\ alloc.pc = "done"
    /\ alloc.combined.kind = "combined"
    /\ DocSupplied("Status of holding") = {<<"Lease Hold">>}
    /\ ImageSupplied("Status of holding") = {<<"Free Hold">>}
    /\ DictGet(alloc.data, "Status of holding") = <<"Lease Hold">>
    /\ DictGet(alloc.data, "Flats(on each floor)") = <<"2">>

\* C24: when the store holds neither a document record nor an image record,
\* the record process_drafter_fields works on is the default template, the
\* blank-field list is exactly the template keys with an empty value, in
\* template order, and the list the function returns is not falsy: the
\* initial phase goes on to the manual input.
C24_FallbackToDefaultTemplate ==
    (~store.doc.present /\ ~store.image.present) =>
        /\ alloc.pc \in {"fill", "done"} =>
              /\ alloc.data = DefaultDrafterTemplate
              /\ alloc.blank_fields =
                    SelectSeq(KeyList(DefaultDrafterTemplate),
                              LAMBDA k : DictGet(DefaultDrafterTemplate, k) = <<>>)
        /\ (alloc.pc = "done" /\ alloc.result.ok) =>
              /\ alloc.result.list = alloc.blank_fields
              /\ ~IsFalsy(alloc.result)

\* The fallback has run to the end: no record in the store, and the function
\* returned the six blank keys of the sampled template.
C24_Witness ==
    /\ ~store.doc.present
    /\ ~store.image.present
    /\ alloc.pc = "done"
    /\ alloc.result.ok
    /\ Len(alloc.result.list) = 6
    /\ "Document Provided for Valuation" \notin SeqRange(alloc.result.list)

\* C25: the record process_drafter_fields works on has exactly the keys of
\* the default template, whatever the document and image records are.
C25_MergedKeysAreTemplateKeys ==
    alloc.pc \in {"fill", "done"} =>
        DictKeys(alloc.data) = DictKeys(DefaultDrafterTemplate)

\* C26: for every field of the merged record with a non-blank value, a fill
\* pass that ran to its end attempted a write of that value into the form
\* field of that name.
C26_EveryNonBlankFieldWritten ==
    (alloc.pc = "done" /\ alloc.result.ok) =>
        \A k \in DictKeys(alloc.data) :
            (Strip(DictGet(alloc.data, k)) # <<>>)
                => \E w \in alloc.writes :
                      w.label = FormLabel(k) /\ w.value = DictGet(alloc.data, k)

\* ---------------------------------------------- extraction specification
\* Input files of one kind handed to an analyzer.
MaxFiles == 3

\* batch_size of analyze_property_images and of analyze_property_documents.
ImageBatchSize == 2
DocBatchSize == 1

\* _get_fallback_document_result, two of its fields.
FallbackDocumentResult == [Document_Type |-> "NA", Owner_Name |-> "NA"]

\* What one call of analyze_real_estate_document_with_gemini returns: the
\* record the service gave, or the fallback record when anything failed.
DocTypes == {"Sale Deed", "Other"}
DocCallResults ==
    [Document_Type : DocTypes, Owner_Name : {"NA", "A"}]
        \cup {FallbackDocumentResult}

\* priority_order of _aggregate_document_results.
PriorityOrder ==
    <<"Copy of Sale Deed", "Sale Deed", "Lease Agreement", "Survey Document">>

\* priority_type.lower() in result.get("Document_Type", "").lower(), for the
\* sampled document types.
PriorityMatches(priority_type, document_type) ==
    priority_type = "Sale Deed" /\ document_type = "Sale Deed"

\* Lines 263-270: the first result of the first priority type that any result
\* matches; 0 when no result matches any type.
PrimaryIndex(results) ==
    LET hits == {p \in 1..Len(PriorityOrder) :
                   \E j \in 1..Len(results) :
                      PriorityMatches(PriorityOrder[p], results[j].Document_Type)}
    IN  IF hits = {} THEN 0
        ELSE LET p == CHOOSE q \in hits : \A r \in hits : q <= r
             IN  CHOOSE j \in 1..Len(results) :
                    /\ PriorityMatches(PriorityOrder[p], results[j].Document_Type)
                    /\ \A l \in 1..(j - 1) :
                          ~PriorityMatches(PriorityOrder[p], results[l].Document_Type)

\* Lines 279-287: the other results fill the fields that are still "NA".
RECURSIVE FillMissing(_, _, _, _)
FillMissing(aggregated, results, primary, j) ==
    IF j > Len(results) THEN aggregated
    ELSE FillMissing(
             IF results[j] = primary THEN aggregated
             ELSE [key \in DOMAIN aggregated |->
                     IF aggregated[key] = "NA" /\ results[j][key] # "NA"
                     THEN results[j][key] ELSE aggregated[key]],
             results, primary, j + 1)

\* _aggregate_document_results. With two or more results of which none has a
\* priority type, line 274 takes the whole list for the primary document and
\* aggregated.update(primary_doc) at line 277 raises.
AggregateDocumentResults(results) ==
    IF results = <<>>
    THEN [raised |-> FALSE, value |-> FallbackDocumentResult]
    ELSE IF Len(results) = 1
    THEN [raised |-> FALSE, value |-> results[1]]
    ELSE IF PrimaryIndex(results) = 0
    THEN [raised |-> TRUE, value |-> FallbackDocumentResult]
    ELSE [raised |-> FALSE,
          value |-> FillMissing(results[PrimaryIndex(results)], results,
                                results[PrimaryIndex(results)], 1)]

\* An entry point without its handler: the error of the aggregation leaves it.
AnalyzeReturnNoHandler(results) ==
    LET a == AggregateDocumentResults(results)
    IN  [outcome |-> IF a.raised THEN "raised" ELSE "returned", value |-> a.value]

\* Lines 236-246 of analyze_property_documents: the aggregated record, or the
\* fallback record when the aggregation raised.
AnalyzeReturn(results) ==
    LET a == AggregateDocumentResults(results)
    IN  [outcome |-> "returned",
         value |-> IF a.raised THEN FallbackDocumentResult ELSE a.value]

SeqsOver(S, n) == UNION {[1..m -> S] : m \in 0..n}

\* An analyzer is entered with its files: regular images and site plans, or
\* documents with what the call for each will return.
InitExtract ==
    /\ \/ \E r \in 0..MaxFiles, s \in 0..MaxFiles :
            /\ store = [pipeline |-> "image", regular |-> r, site |-> s,
                        docs |-> <<>>]
            /\ alloc = [pc |-> "regular", i |-> 0, waiting |-> 0, in_flight |-> 0,
                        results |-> <<>>,
                        ret |-> [outcome |-> "none", value |-> FallbackDocumentResult]]
       \/ \E d \in SeqsOver(DocCallResults, MaxFiles) :
            /\ store = [pipeline |-> "doc", regular |-> 0, site |-> 0, docs |-> d]
            /\ alloc = [pc |-> "docs", i |-> 0, waiting |-> 0, in_flight |-> 0,
                        results |-> <<>>,
                        ret |-> [outcome |-> "none", value |-> FallbackDocumentResult]]
    /\ WfStart(<<"T">>)

Min(a, b) == IF a <= b THEN a ELSE b

\* Lines 269-280 (images) and 226-235 (documents): the tasks of the next
\* batch are created and gathered; the loop goes on when all have returned.
X_StartBatch ==
    /\ alloc.pc \in {"regular", "docs"}
    /\ alloc.waiting = 0 /\ alloc.in_flight = 0
    /\ LET total == IF alloc.pc = "regular" THEN store.regular ELSE Len(store.docs)
           size == IF alloc.pc = "regular" THEN ImageBatchSize ELSE DocBatchSize
       IN  IF alloc.i < total
           THEN alloc' = [alloc EXCEPT !.waiting = Min(size, total - alloc.i),
                                       !.i = alloc.i + Min(size, total - alloc.i)]
           ELSE alloc' = [alloc EXCEPT !.pc = IF alloc.pc = "regular" THEN "site"
                                              ELSE "aggregate"]
    /\ UNCHANGED <<store, wfVars>>

\* Lines 284-287: all site plans are analyzed in one gather.
X_StartSitePlans ==
    /\ alloc.pc = "site"
    /\ alloc.waiting = 0 /\ alloc.in_flight = 0
    /\ alloc' = IF store.site > 0 /\ alloc.i <= store.regular
                THEN [alloc EXCEPT !.waiting = store.site,
                                   !.i = store.regular + store.site]
                ELSE [alloc EXCEPT !.pc = "done",
                                   !.ret = [outcome |-> "returned",
                                            value |-> FallbackDocumentResult]]
    /\ UNCHANGED <<store, wfVars>>

\* A gathered task reaches its call of the service (asyncio.to_thread).
X_BeginCall ==
    /\ alloc.waiting > 0
    /\ alloc' = [alloc EXCEPT !.waiting = @ - 1, !.in_flight = @ + 1]
    /\ UNCHANGED <<store, wfVars>>

\* A call of the service returns; a document's result joins the results.
X_EndCall ==
    /\ alloc.in_flight > 0
    /\ alloc' = [alloc EXCEPT
                   !.in_flight = @ - 1,
                   !.results = IF alloc.pc = "docs"
                               THEN Append(@, store.docs[alloc.i]) ELSE @]
    /\ UNCHANGED <<store, wfVars>>

\* Lines 236-246: aggregate and return.
X_Aggregate ==
    /\ alloc.pc = "aggregate"
    /\ alloc' = [alloc EXCEPT !.pc = "done", !.ret = AnalyzeReturn(alloc.results)]
    /\ UNCHANGED <<store, wfVars>>

NextExtract ==
    X_StartBatch \/ X_StartSitePlans \/ X_BeginCall \/ X_EndCall \/ X_Aggregate

SpecExtract == InitExtract /\ [][NextExtract]_vars

\* --------------------------------------------- claims on the extraction
\* C27: the number of calls of the extraction service in flight never exceeds
\* the batch size of the pipeline: 2 for images, 1 for documents.
C27_CallsInFlightBounded ==
    alloc.in_flight <= (IF store.pipeline = "image" THEN ImageBatchSize
                                                     ELSE DocBatchSize)

MaxEntries == 4
MaxFlushes == 2

LogLevels == {"INFO", "ERROR"}
LogMessages == {"m1", "m2"}

\* The entry log() builds: level.upper() and the message (the other fields
\* are the same for every entry of one logger).
LogEntry(level, message) == [level |-> level, message |-> message]

\* The entry save_logs appends through self.info after the upload.
SavedEntry == LogEntry("INFO", "Logs saved to S3")

\* A log_data that counts the entry appended after the upload as well.
LogDataCountingSaved(log_entries) ==
    [log_count |-> Len(log_entries) + 1, logs |-> log_entries]

\* log_data of save_logs, lines 70-76.
LogData(log_entries) ==
    [log_count |-> Len(log_entries), logs |-> log_entries]

\* UnifiedLogger.__init__: no entry; nothing in the logs folder.
InitLog ==
    /\ store = [artifacts |-> <<>>]
    /\ alloc = [log_entries |-> <<>>, returns |-> <<>>]
    /\ WfStart(<<"T">>)

\* log(level, message): the entry is appended.
L_Log ==
    /\ Len(alloc.log_entries) < MaxEntries
    /\ \E level \in LogLevels, message \in LogMessages :
          alloc' = [alloc EXCEPT !.log_entries = Append(@, LogEntry(level, message))]
    /\ UNCHANGED <<store, wfVars>>

\* save_logs when upload_file returns: the artifact is written, the url is
\* logged and returned. The file name carries the time to the second, so a
\* flush in the second of the previous one writes over its artifact.
L_SaveLogs ==
    /\ Len(alloc.returns) < MaxFlushes
    /\ Len(alloc.log_entries) < MaxEntries
    /\ \E same_second \in BOOLEAN :
          store' = [store EXCEPT !.artifacts =
                      IF same_second /\ @ # <<>>
                      THEN [@ EXCEPT ![Len(@)] = LogData(alloc.log_entries)]
                      ELSE Append(@, LogData(alloc.log_entries))]
    /\ alloc' = [alloc EXCEPT !.log_entries = Append(@, SavedEntry),
                              !.returns = Append(@, "url")]
    /\ UNCHANGED wfVars

\* save_logs when upload_file raises (the store refuses, or an entry cannot
\* be serialised): the except writes to the console and returns None.
L_SaveLogsFails ==
    /\ Len(alloc.returns) < MaxFlushes
    /\ alloc' = [alloc EXCEPT !.returns = Append(@, "None")]
    /\ UNCHANGED <<store, wfVars>>

NextLog == L_Log \/ L_SaveLogs \/ L_SaveLogsFails

SpecLog == InitLog /\ [][NextLog]_vars

IsPrefix(s, t) == Len(s) <= Len(t) /\ \A j \in 1..Len(s) : s[j] = t[j]

\* C29: the entries of a logger only grow at the end; a flush that succeeds
\* writes an artifact holding, in order, every entry appended before it, with
\* log_count their number; a flush that fails returns None and leaves the
\* entries and the artifacts as they were.
C29_LogAppendOnlyAndFlushed ==
    [][ /\ IsPrefix(alloc.log_entries, alloc'.log_entries)
        /\ Len(alloc'.returns) > Len(alloc.returns) =>
             LET ret == alloc'.returns[Len(alloc'.returns)]
             IN  /\ ret \in {"url", "None"}
                 /\ ret = "url" =>
                      /\ store'.artifacts # <<>>
                      /\ store'.artifacts[Len(store'.artifacts)].logs
                            = alloc.log_entries
                      /\ store'.artifacts[Len(store'.artifacts)].log_count
                            = Len(alloc.log_entries)
                 /\ ret = "None" =>
                      /\ alloc'.log_entries = alloc.log_entries
                      /\ store'.artifacts = store.artifacts ]_vars

\* A flush failed with two entries held, the next one succeeded and its
\* artifact holds both.
C29_Witness ==
    /\ alloc.returns = <<"None", "url">>
    /\ Len(store.artifacts) = 1
    /\ store.artifacts[1].log_count = 2
    /\ Len(store.artifacts[1].logs) = 2
    /\ Len(alloc.log_entries) = 3

\* ------------------------------------------- sanitisation specification
\* Longest case id drawn for the sanitisation.
MaxIdLen == 3

\* One letter, the underscore, and two characters outside the class.
CleanAlphabet == {"T", "_", " ", "/"}

CleanCaseIds == {s \in SeqsUpTo(CleanAlphabet, MaxIdLen) : s # <<>>}

\* Two case ids are given; the store holds nothing, or artifacts of earlier
\* runs under the token of the first id.
InitClean ==
    /\ \E a \in CleanCaseIds, b \in CleanCaseIds, S \in SUBSET {0} :
         /\ store = {FirstArtifact(IF k = 0 THEN CleanCaseNumber(a)
                                   ELSE FolderWithCounter(CleanCaseNumber(a), k)) : k \in S}
         /\ alloc = [pc |-> "start", first |-> a, second |-> b,
                     token1 |-> <<>>, token2 |-> <<>>, again |-> <<>>,
                     result1 |-> <<>>, result2 |-> <<>>, probeFailed |-> FALSE]
    /\ WfStart(<<"T">>)

\* _clean_case_number on both ids, and on the token of the first.
K_Clean ==
    /\ alloc.pc = "start"
    /\ alloc' = [alloc EXCEPT !.pc = "cleaned",
                              !.token1 = CleanCaseNumber(alloc.first),
                              !.token2 = CleanCaseNumber(alloc.second),
                              !.again = CleanCaseNumber(CleanCaseNumber(alloc.first))]
    /\ UNCHANGED <<store, wfVars>>

\* UnifiedS3Manager(first id), every probe answered.
K_AllocFirst ==
    /\ alloc.pc = "cleaned"
    /\ alloc' = [alloc EXCEPT
                   !.pc = "first",
                   !.result1 = S3ManagerInit(alloc.first, store, NoFail).unique_case_folder]
    /\ UNCHANGED <<store, wfVars>>

\* The first run writes an artifact into its namespace.
K_Upload ==
    /\ alloc.pc = "first"
    /\ store' = store \cup {FirstArtifact(alloc.result1)}
    /\ alloc' = [alloc EXCEPT !.pc = "uploaded"]
    /\ UNCHANGED wfVars

\* UnifiedS3Manager(second id); one of its probes may fail.
K_AllocSecond ==
    /\ alloc.pc = "uploaded"
    /\ \E f \in {NoFail, 0} :
         LET m == S3ManagerInit(alloc.second, store, f)
         IN  alloc' = [alloc EXCEPT !.pc = "second",
                                    !.result2 = m.unique_case_folder,
                                    !.probeFailed = m.probeFailed]
    /\ UNCHANGED <<store, wfVars>>

NextClean == K_Clean \/ K_AllocFirst \/ K_Upload \/ K_AllocSecond

SpecClean == InitClean /\ [][NextClean]_vars

\* The two ids have the same length and differ only where both hold a
\* character outside [a-zA-Z0-9\-_].
DifferOnlyInDisallowed(a, b) ==
    /\ Len(a) = Len(b)
    /\ \A j \in 1..Len(a) :
          a[j] # b[j] => (a[j] \notin AllowedChars /\ b[j] \notin AllowedChars)

C31_NoLocationFromEarlierRun ==
    (InContinuing /\ url # NoUrl) => url.case = CaseArg

\* C32: the session variables agree in every state: automation_phase is
\* waiting_for_input exactly when automation_status is, and a status of
\* running implies automation_started.
C32_SessionVariablesAgree ==
    /\ (automation_phase = "waiting_for_input")
          <=> (automation_status = "waiting_for_input")
    /\ automation_status = "running" => automation_started

\* C33: once the continuing phase has ended with the status completed, the
\* browser session it opened is closed: no session is open when a run is
\* completed and no script is running.
C33_NoSessionWhenCompleted ==
    (automation_status = "completed" /\ pc = "idle") => sessions = 0

\* ------------------------------------------------ loggers specification
\* Entries one logger receives in one phase.
MaxLogged == 2

LoggerModules == {"main_controller", "document_download", "drafter_field",
                  "drafter_manual_input", "document_field"}

\* The loggers whose module ends with save_logs() in a finally block:
\* document_download.py 124-125, drafter_field.py 636-638, document.py
\* 482-486. automate.py and drafter_manual_input.py never call save_logs.
FlushingModules == {"document_download", "drafter_field", "document_field"}

\* The modules that log, in the order a phase runs them; the main controller
\* logs before, between and after the modules it calls.
PhaseSteps(phase) ==
    IF phase = "initial"
    THEN <<"main_controller", "document_download", "main_controller",
           "drafter_field", "main_controller">>
    ELSE <<"main_controller", "drafter_manual_input", "main_controller",
           "document_field", "main_controller">>

\* A phase is entered: its loggers are new and hold nothing.
InitLoggers ==
    /\ \E phase \in {"initial", "continuing"} :
         alloc = [phase |-> phase, step |-> 1, ended |-> FALSE,
                  store_failed |-> FALSE,
                  logged |-> [m \in LoggerModules |-> 0]]
    /\ store = [in_artifact |-> [m \in LoggerModules |-> 0]]
    /\ WfStart(<<"T">>)

\* The module of the current step appends an entry to its logger.
G_Log ==
    /\ ~alloc.ended
    /\ LET m == PhaseSteps(alloc.phase)[alloc.step]
       IN  /\ alloc.logged[m] < MaxLogged
           /\ alloc' = [alloc EXCEPT !.logged[m] = @ + 1]
    /\ UNCHANGED <<store, wfVars>>

\* The module of the current step is left. A module of FlushingModules calls
\* save_logs on the way: the artifact then holds the entries of its logger,
\* unless the store refuses the upload.
G_Leave ==
    /\ ~alloc.ended
    /\ LET m == PhaseSteps(alloc.phase)[alloc.step]
           last == alloc.step = Len(PhaseSteps(alloc.phase))
       IN  \E upload_ok \in BOOLEAN :
             /\ (m \notin FlushingModules) => upload_ok
             /\ store' = IF m \in FlushingModules /\ upload_ok
                         THEN [store EXCEPT !.in_artifact[m] = alloc.logged[m]]
                         ELSE store
             /\ alloc' = [alloc EXCEPT
                            !.step = IF last THEN @ ELSE @ + 1,
                            !.ended = last,
                            !.store_failed = @ \/ ~upload_ok]
    /\ UNCHANGED wfVars

NextLoggers == G_Log \/ G_Leave

SpecLoggers == InitLoggers /\ [][NextLoggers]_vars /\ WF_vars(NextLoggers)

\* C34: once a phase has ended without a store failure, every entry that any
\* of its loggers received is eventually held by a log artifact in the store.
C34_EveryEntryEventuallyStored ==
    (alloc.ended /\ ~alloc.store_failed)
        ~> (\A m \in LoggerModules : store.in_artifact[m] = alloc.logged[m])

\* C35: every key of the default template has an entry in the field catalog,
\* so when the form is on screen every blank field of the session has its
\* descriptor on it: none is dropped as an unknown key.
C35_EveryBlankFieldPresented ==
    form_shown =>
        \A i \in 1..Len(blank_fields) :
            \E j \in 1..Len(ValidateAndTransform(blank_fields)) :
                ValidateAndTransform(blank_fields)[j] = blank_fields[i]

\* ------------------------------------- claims on the reconciliation, part 2
\* C36: with the fallback record of the document pipeline in the store and no
\* image record, the record process_drafter_fields works on is the default
\* template, and every blank field of the template is reported blank.
C36_FallbackRecordFillsNothing ==
    (/\ store.doc = Stored(FallbackDocumentAnalysis)
     /\ ~store.image.present
     /\ alloc.pc \in {"fill", "done"}
     /\ alloc.combined.kind = "combined") =>
        /\ alloc.data = DefaultDrafterTemplate
        /\ alloc.blank_fields = FindBlankFields(DefaultDrafterTemplate)

\* C37: whatever document record and image record the store holds (or lacks),
\* the blank-field list of process_drafter_fields is not empty, so a fill pass
\* that returns does not return an empty list.
C37_BlankListNeverEmpty ==
    /\ alloc.pc \in {"fill", "done"} => alloc.blank_fields # <<>>
    /\ (alloc.pc = "done" /\ alloc.result.ok) => ~IsFalsy(alloc.result)

\* Both records supply every field they can: the fields no mapping reaches
\* are all that is left blank.
C37_Witness ==
    /\ alloc.pc = "done"
    /\ alloc.result.ok
    /\ store.doc.present /\ store.image.present
    /\ alloc.combined.kind = "combined"
    /\ alloc.result.list = <<"North - As per Document(Boundary)">>

\* ------------------------------------- claims on the extraction, part 2
\* C38: with several documents, the aggregate starts from the first document
\* of the highest priority type, or from the first document when none has a
\* priority type, and keeps every value of it that is not "NA"; a field that
\* is "NA" there takes a value of another document or stays "NA".
C38_PrimaryDocumentKept ==
    (store.pipeline = "doc" /\ alloc.pc = "done" /\ Len(store.docs) >= 2) =>
        LET p == PrimaryIndex(store.docs)
            primary == IF p = 0 THEN store.docs[1] ELSE store.docs[p]
        IN  \A key \in DOMAIN primary :
               IF primary[key] # "NA"
               THEN alloc.ret.value[key] = primary[key]
               ELSE \/ alloc.ret.value[key] = "NA"
                    \/ \E j \in 1..Len(store.docs) :
                          alloc.ret.value[key] = store.docs[j][key]

\* ------------------------------------- document selection specification
\* Checkboxes on the Documents tab.
MaxCheckboxes == 4

\* PHOTO_CONSTRAINTS, two of its items.
PHOTO_CONSTRAINTS == [t \in {"Site Plan", "Kitchen"} |->
                         IF t = "Site Plan" THEN 2 ELSE 1]

\* Texts next to a checkbox: two that name a constrained title, one that
\* names no title of the constraints, and none.
CheckboxTexts == {"Site Plan", "kitchen", "Floor Plan", ""}

\* map_to_constraint_title on the sampled texts: the lower-cased text is
\* looked up; a text without any keyword gives None.
MapToConstraintTitle(text) ==
    CASE text = "Site Plan" -> "Site Plan"
      [] text = "kitchen" -> "Kitchen"
      [] OTHER -> None

\* extract_checkbox_title: the mapped title of the container text, or None.
ExtractCheckboxTitle(checkbox) ==
    IF checkbox.text = "" THEN None ELSE MapToConstraintTitle(checkbox.text)

\* A limit test that lets one more through.
LimitReachedAbove(current_count, max_allowed) == current_count > max_allowed

\* Line 316: current_count >= max_allowed.
LimitReached(current_count, max_allowed) == current_count >= max_allowed

Checkboxes == [text : CheckboxTexts, selectable : BOOLEAN]

\* process_documents_with_constraints is entered: the counts are zero and the
\* result lists empty (lines 269-277); the page has some checkboxes, of which
\* each can be selected or not.
InitSelect ==
    /\ \E page \in SeqsOver(Checkboxes, MaxCheckboxes) :
          store = [checkboxes |-> page]
    /\ alloc = [pc |-> "loop", i |-> 0,
                selected_counts |-> [t \in DOMAIN PHOTO_CONSTRAINTS |-> 0],
                selected |-> <<>>, skipped_not_in_constraints |-> <<>>,
                skipped_limit_reached |-> <<>>, failed_selections |-> <<>>,
                success |-> FALSE]
    /\ WfStart(<<"T">>)

\* Lines 292-364: one pass of the loop, for checkbox i + 1.
P_Checkbox ==
    /\ alloc.pc = "loop"
    /\ alloc.i < Len(store.checkboxes)
    /\ LET n == alloc.i + 1
           title == ExtractCheckboxTitle(store.checkboxes[n])
       IN  alloc' =
             IF title = None \/ title \notin DOMAIN PHOTO_CONSTRAINTS
             THEN [alloc EXCEPT !.i = n,
                                !.skipped_not_in_constraints = Append(@, n)]
             ELSE IF LimitReached(alloc.selected_counts[title],
                                  PHOTO_CONSTRAINTS[title])
             THEN [alloc EXCEPT !.i = n, !.skipped_limit_reached = Append(@, n)]
             ELSE IF store.checkboxes[n].selectable
             THEN [alloc EXCEPT !.i = n, !.selected_counts[title] = @ + 1,
                                !.selected = Append(@, n)]
             ELSE [alloc EXCEPT !.i = n, !.failed_selections = Append(@, n)]
    /\ UNCHANGED <<store, wfVars>>

\* Lines 287-289 and 366-391: no checkbox at all is an error; otherwise the
\* results are returned after the last checkbox.
P_Return ==
    /\ alloc.pc = "loop"
    /\ alloc.i = Len(store.checkboxes)
    /\ alloc' = [alloc EXCEPT !.pc = "returned",
                              !.success = Len(store.checkboxes) > 0]
    /\ UNCHANGED <<store, wfVars>>

NextSelect == P_Checkbox \/ P_Return

SpecSelect == InitSelect /\ [][NextSelect]_vars

ResultLists(a) ==
    <<a.selected, a.skipped_not_in_constraints, a.skipped_limit_reached,
      a.failed_selections>>

\* C39: after any number of checkboxes, the count of each title is the number
\* of selected checkboxes of that title and is at most its limit; a checkbox
\* without a title of the constraints is not selected; and every checkbox
\* processed is in exactly one result list, once.
C39_SelectionWithinConstraints ==
    /\ \A t \in DOMAIN PHOTO_CONSTRAINTS :
          /\ alloc.selected_counts[t] <= PHOTO_CONSTRAINTS[t]
          /\ alloc.selected_counts[t] =
                Cardinality({j \in 1..Len(alloc.selected) :
                   ExtractCheckboxTitle(store.checkboxes[alloc.selected[j]]) = t})
    /\ \A j \in 1..Len(alloc.selected) :
          ExtractCheckboxTitle(store.checkboxes[alloc.selected[j]])
              \in DOMAIN PHOTO_CONSTRAINTS
    /\ \A n \in 1..alloc.i :
          Cardinality({l \in 1..4 : \E j \in 1..Len(ResultLists(alloc)[l]) :
                                       ResultLists(alloc)[l][j] = n}) = 1
    /\ Len(alloc.selected) + Len(alloc.skipped_not_in_constraints)
          + Len(alloc.skipped_limit_reached) + Len(alloc.failed_selections)
          = alloc.i

\* Three site plans and a floor plan: two selected, the third skipped at its
\* limit, the floor plan skipped as not in the constraints.
C39_Witness ==
    /\ alloc.pc = "returned"
    /\ alloc.success
    /\ alloc.selected_counts["Site Plan"] = 2
    /\ Len(alloc.selected) = 2
    /\ Len(alloc.skipped_limit_reached) = 1
    /\ Len(alloc.skipped_not_in_constraints) = 1

=============================================================================
